---- MODULE Spec2Model ----
(***************************************************************************)
(* A model of avl_file.c: file-based threaded AVL trees with multiple keys *)
(* and concurrent access, fixed length records in a single file.           *)
(*                                                                         *)
(* The file is modelled as a header (hdr) followed by an array of slots    *)
(* (rec), a function from file offsets to records.  A library call is one  *)
(* action, the whole of what it does between the lockf() of byte 0 and its *)
(* release; avl_file_getnum is also given step by step (lock, read, write, *)
(* unlock), to see what the lock of byte 0 excludes and what it does not.  *)
(*                                                                         *)
(* `char b' (the balance byte) is taken as a signed char, as on x86.       *)
(***************************************************************************)
EXTENDS Integers, Sequences, FiniteSets, TLC

VARIABLES hdr,      \* the header structure at offset 0, or NoHdr for an empty file
          rec,      \* the slots: file offset -> struct avl_struct
          handle,   \* the AVL_FILE structures: handle -> NoHandle or [n_keys, cpr]
          lock,     \* lockf() locks on slots: set of <<pid, offset>>
          op,       \* the last call: [name, h, k, data]
          ret,      \* its return value
          out,      \* the caller's data buffer after the call
          emsg,     \* the AVL_FILE_EMSG environment variable ("" when unset)
          order,    \* history: the slots of the live records, last inserted first
          iter,     \* history: the records returned since the last start call
          thread,   \* where the call in progress on each handle is, and its local hdr
          nums,     \* history: the values avl_file_getnum returned, in order
          user,     \* history: the handles whose avl_file_lock returned, not unlocked since
          count     \* the caller's int64_t count after avl_file_scan

vars == <<hdr, rec, handle, lock, op, ret, out, emsg, order, iter, thread, nums, user,
         count>>

----------------------------------------------------------------------------
(* Bounds of the model. *)

MaxRec == 4          \* live records in Spec
MaxRecUpd == 3       \* live records in SpecUpd
MaxRecIter == 4      \* live records in SpecGe and SpecLt
MaxRecSeq == 3       \* live records in SpecSeq
MaxRecMulti == 2     \* live records in SpecMulti
MaxRecPass == 3      \* live records in SpecPass
MaxSlots == 3        \* slots of the file in SpecGate
MaxNums == 2         \* calls of avl_file_getnum in SpecGate
MaxRecScan == 3      \* live records in SpecScan
MaxRecTall == 7      \* live records in SpecTall
MaxSlotsFull == 4    \* slots of the file in SpecFull
MaxRecCur == 3       \* live records in SpecCur
MaxRecShare == 2     \* live records in SpecShare
MaxRecKeep == 3      \* live records in SpecKeep
MaxRecOpen == 2      \* live records in SpecOpen and SpecArgs

(* The example program of avl_file.c: two keys over struct r_struct. *)
MaxKeys == 2
DataLen == 132

(* A data length that gives, with two keys, the record length that DataLen *)
(* gives with one.                                                         *)
ShortLen == 108

(* INT64_MAX, the largest n_avl.  The checker's integers are 32 bits wide:  *)
(* the largest of them but one stands for 2^63 - 1.  No run of inserts      *)
(* comes near either number; a header holds it only in a file brought from *)
(* elsewhere.                                                              *)
Int64Max == 2147483646

(* Slot tags in the balance byte of key 0. *)
TagCpr == 32
TagEmpty == 64

NoHdr == [n_keys |-> -1]
NoHandle == [n_keys |-> -1, cpr |-> 0]

(* struct r_struct {num, object, reg, data}; object and data are strings,  *)
(* modelled by small integers ordered as strcmp orders the strings.        *)
R(num, object, reg, data) ==
  [num |-> num, object |-> object, reg |-> reg, data |-> data]

(* Records equal in key 0 and not in key 1, equal in both keys and not in  *)
(* the data, and in opposite order by the two keys.                        *)
Payloads ==
  { R(1, 2, 0, 0), R(2, 1, 0, 0), R(2, 1, 0, 1), R(2, 2, 0, 0) }

(* The records of the files read by key: equal in key 0 or in the object   *)
(* of key 1, in opposite order by the two keys, and inserted more than     *)
(* once.                                                                   *)
IterPayloads ==
  { R(1, 2, 0, 0), R(2, 1, 0, 0), R(2, 2, 0, 0) }

(* Two records in opposite order by the two keys: with duplicates, every  *)
(* rotation happens in one tree or the other.                             *)
TreePayloads ==
  { R(1, 2, 0, 0), R(2, 1, 0, 0) }

(* What an automatic struct holds before it is assigned: every field of it *)
(* that reaches the file is overwritten before any read of it.             *)
Uninit == R(0, 0, 0, 0)

(* cmp_test of the example program. *)
cmp_test(k, a, b) ==
  IF k = 0 THEN a.num - b.num
  ELSE IF a.object # b.object THEN a.object - b.object
  ELSE IF a.num # b.num THEN a.num - b.num
  ELSE a.reg - b.reg

(* sizeof (struct hdr_struct) and sizeof (struct avl_struct) on LP64. *)
HdrSize(nk) == 64 + 8 * nk
RecLenOf(nk, len) == 8 * ((24 * nk + 16 + len + 7) \div 8)
RecLen(nk) == RecLenOf(nk, DataLen)

Keys(nk) == 0 .. nk - 1

Node(b, l, r) == [b |-> b, l |-> l, r |-> r]

(* lseek (fd, 0, SEEK_END) *)
FileEnd(H, F) ==
  IF H = NoHdr THEN 0 ELSE HdrSize(H.n_keys) + Cardinality(DOMAIN F) * H.reclen

(* avl_file_lwrite: a write at the end of the file extends it. *)
Wr(F, pos, r) == IF pos \in DOMAIN F THEN [F EXCEPT ![pos] = r] ELSE (pos :> r) @@ F

(* Every loop of the code is bounded here by the number of slots: on a     *)
(* well-formed file no loop comes near it; a loop that reaches it would    *)
(* not end in the code, and the call never returns.                        *)
Fuel(F) == Cardinality(DOMAIN F) + 2

----------------------------------------------------------------------------
(* Handles and processes. *)

Handles == {1, 2, 3}
ProcOf(h) == IF h = 3 THEN 2 ELSE 1      \* getpid () of the opener

IsOpen(h) == handle[h] # NoHandle

(* lockf (fd, F_TEST, reclen) at pos, called by pid: 0 unless another      *)
(* process holds a lock there.                                             *)
LockedByOther(L, pid, pos) == \E e \in L : e[2] = pos /\ e[1] # pid

(* close (fd): the process loses every lock it holds on the file.          *)
DropLocks(L, pid) == { e \in L : e[1] # pid }

(* lockf (fd, F_LOCK, 1) at offset 0 returns when no other process holds a *)
(* lock on the byte: a lock of the caller's own process, taken through any *)
(* descriptor by any thread, does not stop it.                             *)
GateFree(h) == ~LockedByOther(lock, ProcOf(h), 0)

(* lockf (fd, F_ULOCK, 1) at pos: the process holds no lock there any more. *)
Unlock(L, pid, pos) == L \ {<<pid, pos>>}

(* A handle with no call in progress; at is the place in the call, and hdr *)
(* the automatic hdr of the call once it is read.                          *)
Idle == [at |-> "idle", hdr |-> NoHdr]

Call(name, h, k, data) == [name |-> name, h |-> h, k |-> k, data |-> data]

(* The history of an iteration: the start call (kind, handle, key, the     *)
(* record it returned or 0), the slots the following read calls returned,  *)
(* whether the last of them returned -1, and the slots that deletes        *)
(* through other handles freed meanwhile.  Any other call that can change  *)
(* the file or the position forgets it.                                    *)
Iter(kind, h, k, at) ==
  [kind |-> kind, h |-> h, k |-> k, at |-> at, got |-> <<>>, end |-> FALSE, del |-> <<>>]
NoIter == Iter("none", 0, 0, 0)

----------------------------------------------------------------------------
(* avl_file_open *)

NewHdr(nk, len) ==
  [n_keys |-> nk, len |-> len, reclen |-> RecLenOf(nk, len), n_avl |-> 0, nextnum |-> 0,
   root |-> [k \in Keys(nk) |-> 0], head_seq |-> 0, head_empty |-> 0, head_cpr |-> 0]

(* The search of the current-pointer list for a record of another process  *)
(* that is not locked.  cpr is the record read last.                       *)
RECURSIVE OpenSearch(_, _, _, _, _, _)
OpenSearch(F, L, pid, cp, cpr, fuel) ==
  IF cp <= 0 THEN [ok |-> TRUE, cp |-> 0, cpr |-> cpr]
  ELSE IF fuel = 0 \/ cp \notin DOMAIN F THEN [ok |-> FALSE, cp |-> 0, cpr |-> cpr]
  ELSE LET r == F[cp] IN
       IF r.b.num # pid /\ ~LockedByOther(L, pid, cp)
       THEN [ok |-> TRUE, cp |-> cp, cpr |-> r]
       ELSE OpenSearch(F, L, pid, r.next, r, fuel - 1)

(* The record stamped and tagged, its pointers left as they were. *)
CprInitStamp(r, nk, pid) ==
  [r EXCEPT !.n = [k \in Keys(nk) |-> Node(TagCpr, r.n[k].l, r.n[k].r)],
            !.b = [r.b EXCEPT !.num = pid]]

CprInit(r, nk, pid) ==
  [r EXCEPT !.n = [k \in Keys(nk) |-> Node(TagCpr, 0, 0)],
            !.b = [r.b EXCEPT !.num = pid],
            !.prev = 0]

(* A test of the record length alone. *)
OpenMismatchReclen(H, len, nk) == H.reclen # RecLenOf(nk, len)

(* The two tests of the header against the arguments of open. *)
OpenMismatch(H, len, nk) == H.reclen # RecLenOf(nk, len) \/ H.n_keys # nk

UninitRec(nk) ==
  [n |-> [k \in Keys(nk) |-> Node(0, 0, 0)], prev |-> 0, next |-> 0, b |-> Uninit]

avl_file_open(h, len, nk) ==
  LET pid == ProcOf(h)
      H0  == IF hdr = NoHdr THEN NewHdr(nk, len) ELSE hdr
  IN
  /\ ~IsOpen(h)
  /\ GateFree(h)
  /\ UNCHANGED <<thread, nums, user, count>>
  /\ op' = Call("open", h, nk, Uninit)
  /\ out' = Uninit
  /\ IF OpenMismatch(H0, len, nk)
     THEN /\ emsg' = IF H0.reclen # RecLenOf(nk, len) THEN "22 hdr.reclen != reclen"
                                                ELSE "23 hdr.n_keys != n_keys"
          /\ ret' = -1
          /\ lock' = DropLocks(lock, pid)
          /\ UNCHANGED <<hdr, rec, handle, order, iter>>
     ELSE LET s   == OpenSearch(rec, lock, pid, H0.head_cpr, UninitRec(nk), Fuel(rec))
              new == s.cp = 0
              e   == H0.head_empty
              cp  == IF ~new THEN s.cp ELSE IF e = 0 THEN FileEnd(H0, rec) ELSE e
              c0  == IF new /\ e # 0 THEN rec[e] ELSE s.cpr
              H1  == IF new /\ e # 0 THEN [H0 EXCEPT !.head_empty = c0.next] ELSE H0
              c1  == IF new THEN [c0 EXCEPT !.next = H1.head_cpr] ELSE c0
              H2  == IF new THEN [H1 EXCEPT !.head_cpr = cp] ELSE H1
          IN
          /\ s.ok
          /\ new /\ e # 0 => e \in DOMAIN rec
          /\ ~LockedByOther(lock, pid, cp)
          /\ rec' = Wr(rec, cp, CprInit(c1, nk, pid))
          /\ hdr' = H2
          /\ lock' = Unlock(lock, pid, 0) \cup {<<pid, cp>>}
          /\ handle' = [handle EXCEPT ![h] = [n_keys |-> nk, cpr |-> cp]]
          /\ ret' = 0
          /\ emsg' = ""
          /\ iter' = NoIter
          /\ UNCHANGED order

----------------------------------------------------------------------------
(* avl_file_close *)

(* A loop that leaves the list as it is. *)
CprUnlinkNone(F, sp, cp, nxt, fuel) == [ok |-> TRUE, F |-> F]

(* The loop that unlinks cp from the current-pointer list. *)
RECURSIVE CprUnlink(_, _, _, _, _)
CprUnlink(F, sp, cp, nxt, fuel) ==
  IF sp <= 0 THEN [ok |-> TRUE, F |-> F]
  ELSE IF fuel = 0 \/ sp \notin DOMAIN F THEN [ok |-> FALSE, F |-> F]
  ELSE IF F[sp].next = cp THEN [ok |-> TRUE, F |-> Wr(F, sp, [F[sp] EXCEPT !.next = nxt])]
  ELSE CprUnlink(F, F[sp].next, cp, nxt, fuel - 1)

(* The call from the return of lockf (fd, F_LOCK, 1), which returns when   *)
(* gate holds.                                                             *)
Close(h, gate) ==
  LET pid == ProcOf(h)
      nk  == handle[h].n_keys
      cp  == handle[h].cpr
      cpr == rec[cp]
      u   == IF hdr.head_cpr = cp THEN [ok |-> TRUE, F |-> rec]
             ELSE CprUnlink(rec, hdr.head_cpr, cp, cpr.next, Fuel(rec))
      H1  == IF hdr.head_cpr = cp THEN [hdr EXCEPT !.head_cpr = cpr.next] ELSE hdr
      c1  == [cpr EXCEPT !.n = [k \in Keys(nk) |-> Node(TagEmpty, 0, 0)],
                         !.next = H1.head_empty]
  IN
  /\ IsOpen(h)
  /\ thread[h] = Idle
  /\ gate
  /\ cp \in DOMAIN rec
  /\ u.ok
  /\ rec' = Wr(u.F, cp, c1)
  /\ hdr' = [H1 EXCEPT !.head_empty = cp]
  /\ lock' = DropLocks(lock, pid)
  /\ handle' = [handle EXCEPT ![h] = NoHandle]
  /\ user' = user \ {h}
  /\ UNCHANGED <<thread, nums, count>>
  /\ op' = Call("close", h, 0, Uninit)
  /\ iter' = NoIter
  /\ UNCHANGED <<ret, out, emsg, order>>

avl_file_close(h) == Close(h, GateFree(h))

----------------------------------------------------------------------------
(* The process of handle h ends without avl_file_close: the kernel closes  *)
(* its descriptors, which releases its locks, and the file stays as it is, *)
(* with the current-pointer record of every handle it had on the list:     *)
(* the unused (unlocked) records that open and squash search for.          *)
abandon(h) ==
  LET pid == ProcOf(h) IN
  /\ IsOpen(h)
  /\ \A g \in Handles : ProcOf(g) = pid => thread[g] = Idle
  /\ handle' = [g \in Handles |-> IF ProcOf(g) = pid THEN NoHandle ELSE handle[g]]
  /\ lock' = DropLocks(lock, pid)
  /\ user' = {g \in user : ProcOf(g) # pid}
  /\ op' = Call("exit", h, 0, Uninit)
  /\ iter' = NoIter
  /\ UNCHANGED <<hdr, rec, ret, out, emsg, order, thread, nums, count>>

----------------------------------------------------------------------------
(* avl_file_getnum, one system call at a time. *)

(* The calls of avl_file_getnum begun so far. *)
Begun == Len(nums) + Cardinality({ g \in Handles : thread[g] # Idle })

(* lseek (fd, 0, SEEK_SET); lockf (fd, F_LOCK, 1) *)
getnum_lock(h) ==
  /\ IsOpen(h)
  /\ thread[h] = Idle
  /\ Begun < MaxNums
  /\ GateFree(h)
  /\ lock' = lock \cup {<<ProcOf(h), 0>>}
  /\ thread' = [thread EXCEPT ![h] = [at |-> "locked", hdr |-> NoHdr]]
  /\ UNCHANGED <<hdr, rec, handle, op, ret, out, emsg, order, iter, nums, user, count>>

(* read (fd, &hdr, sizeof (hdr)); hdr.nextnum++ *)
getnum_read(h) ==
  /\ thread[h].at = "locked"
  /\ hdr # NoHdr
  /\ thread' = [thread EXCEPT ![h] = [at |-> "read",
                                       hdr |-> [hdr EXCEPT !.nextnum = @ + 1]]]
  /\ UNCHANGED <<hdr, rec, handle, lock, op, ret, out, emsg, order, iter, nums, user, count>>

(* write (fd, &hdr, sizeof (hdr)): the whole header, as it was read. *)
getnum_write(h) ==
  /\ thread[h].at = "read"
  /\ hdr' = thread[h].hdr
  /\ thread' = [thread EXCEPT ![h].at = "written"]
  /\ UNCHANGED <<rec, handle, lock, op, ret, out, emsg, order, iter, nums, user, count>>

(* lockf (fd, F_ULOCK, 1); return (hdr.nextnum) *)
getnum_unlock(h) ==
  /\ thread[h].at = "written"
  /\ lock' = Unlock(lock, ProcOf(h), 0)
  /\ ret' = thread[h].hdr.nextnum
  /\ nums' = Append(nums, thread[h].hdr.nextnum)
  /\ thread' = [thread EXCEPT ![h] = Idle]
  /\ op' = Call("getnum", h, 0, Uninit)
  /\ UNCHANGED <<hdr, rec, handle, out, emsg, order, iter, user, count>>

----------------------------------------------------------------------------
(* avl_file_insert *)

(* (hdr.n_avl + 1) < 0.  At INT64_MAX the sum overflows a signed integer,  *)
(* which the language leaves undefined: a build that wraps the sum finds   *)
(* it negative (wrap), a build that takes n + 1 < 0 for n < -1 does not.   *)
NAvlLimit(n, wrap) == IF n = Int64Max THEN wrap ELSE n + 1 < 0

(* What the build may make of the test. *)
Wraps(n) == IF n = Int64Max THEN BOOLEAN ELSE {TRUE}

(* hdr.n_avl++, in 64 bits. *)
Inc64(n) == IF n = Int64Max THEN -Int64Max - 1 ELSE n + 1

SetN(r, k, f, v) == [r EXCEPT !.n[k][f] = v]
SetB(r, k, v) == [r EXCEPT !.n[k].b = v]

(* The descent to the insertion point: a is the last node met with a       *)
(* non-zero balance, f its parent, q the last node and p the link that     *)
(* left the tree.                                                          *)
RECURSIVE InsDescend(_, _, _, _, _, _, _, _)
InsDescend(F, k, yb, p, q, a, f, fuel) ==
  IF p <= 0 THEN [ok |-> TRUE, p |-> p, q |-> q, a |-> a, f |-> f]
  ELSE IF fuel = 0 \/ p \notin DOMAIN F THEN [ok |-> FALSE, p |-> p, q |-> q, a |-> a, f |-> f]
  ELSE LET pr == F[p]
           nz == pr.n[k].b # 0
       IN InsDescend(F, k, yb,
                     IF cmp_test(k, yb, pr.b) < 0 THEN pr.n[k].l ELSE pr.n[k].r,
                     p, IF nz THEN p ELSE a, IF nz THEN q ELSE f, fuel - 1)

(* The balance factors on the path from below a to y. *)
RECURSIVE InsPath(_, _, _, _, _, _)
InsPath(F, k, yb, y, p, fuel) ==
  IF p = y THEN [ok |-> TRUE, F |-> F]
  ELSE IF fuel = 0 \/ p \notin DOMAIN F THEN [ok |-> FALSE, F |-> F]
  ELSE LET pr == F[p] IN
       IF cmp_test(k, yb, pr.b) < 0
       THEN InsPath(Wr(F, p, SetB(pr, k, 1)), k, yb, y, pr.n[k].l, fuel - 1)
       ELSE InsPath(Wr(F, p, SetB(pr, k, -1)), k, yb, y, pr.n[k].r, fuel - 1)

(* The rotations of insert for d = +1 (left) at a, with b its left child:  *)
(* the new subtree root and the file.                                      *)
InsRotL(F, k, a, ar, b) ==
  LET br == F[b] IN
  IF br.n[k].b = 1
  THEN LET ar1 == SetB(SetN(ar, k, "l", IF br.n[k].r > 0 THEN br.n[k].r ELSE -b), k, 0)
           br1 == SetB(SetN(br, k, "r", a), k, 0)
       IN [ok |-> TRUE, b |-> b, F |-> Wr(Wr(F, a, ar1), b, br1), bad |-> FALSE]
  ELSE LET c   == br.n[k].r IN
       IF c \notin DOMAIN F THEN [ok |-> FALSE, b |-> b, F |-> F, bad |-> FALSE]
       ELSE
       LET cr  == F[c]
           cb  == cr.n[k].b
           br1 == SetN(br, k, "r", IF cr.n[k].l > 0 THEN cr.n[k].l ELSE -c)
           ar1 == SetN(ar, k, "l", IF cr.n[k].r > 0 THEN cr.n[k].r ELSE -c)
           ar2 == IF cb = 1 THEN SetB(ar1, k, -1)
                  ELSE IF cb \in {-1, 0} THEN SetB(ar1, k, 0) ELSE ar1
           br2 == IF cb = 1 THEN SetB(br1, k, 0)
                  ELSE IF cb = -1 THEN SetB(br1, k, 1)
                  ELSE IF cb = 0 THEN SetB(br1, k, 0) ELSE br1
           cr1 == SetB(SetN(SetN(cr, k, "l", b), k, "r", a), k, 0)
       IN [ok |-> TRUE, b |-> c, F |-> Wr(Wr(Wr(F, a, ar2), b, br2), c, cr1),
           bad |-> cb \notin {-1, 0, 1}]

(* The rotations of insert for d = -1 (right) at a, with b its right child. *)
InsRotR(F, k, a, ar, b) ==
  LET br == F[b] IN
  IF br.n[k].b = -1
  THEN LET ar1 == SetB(SetN(ar, k, "r", IF br.n[k].l > 0 THEN br.n[k].l ELSE -b), k, 0)
           br1 == SetB(SetN(br, k, "l", a), k, 0)
       IN [ok |-> TRUE, b |-> b, F |-> Wr(Wr(F, a, ar1), b, br1), bad |-> FALSE]
  ELSE LET c   == br.n[k].l IN
       IF c \notin DOMAIN F THEN [ok |-> FALSE, b |-> b, F |-> F, bad |-> FALSE]
       ELSE
       LET cr  == F[c]
           cb  == cr.n[k].b
           ar1 == SetN(ar, k, "r", IF cr.n[k].l > 0 THEN cr.n[k].l ELSE -c)
           br1 == SetN(br, k, "l", IF cr.n[k].r > 0 THEN cr.n[k].r ELSE -c)
           br2 == IF cb = 1 THEN SetB(br1, k, -1)
                  ELSE IF cb \in {-1, 0} THEN SetB(br1, k, 0) ELSE br1
           ar2 == IF cb = 1 THEN SetB(ar1, k, 0)
                  ELSE IF cb = -1 THEN SetB(ar1, k, 1)
                  ELSE IF cb = 0 THEN SetB(ar1, k, 0) ELSE ar1
           cr1 == SetB(SetN(SetN(cr, k, "r", b), k, "l", a), k, 0)
       IN [ok |-> TRUE, b |-> c, F |-> Wr(Wr(Wr(F, a, ar2), b, br2), c, cr1),
           bad |-> cb \notin {-1, 0, 1}]

(* Insert's loop over the keys is written in stages, each a definition     *)
(* that takes what the lines before it have computed.                      *)
(* m = [ok, F, H, e]: the file, the header in memory, the message.         *)

(* The new subtree root rot.b is linked to f, the parent of a, or made the *)
(* root of tree k.                                                         *)
InsRelink(m, k, a, f, fr, d, rot) ==
  IF ~rot.ok THEN [m EXCEPT !.ok = FALSE] ELSE
  LET e1  == IF rot.bad THEN (IF d = 1 THEN "32 invalid value n.b" ELSE "33 invalid value n.b")
             ELSE m.e
      fr1 == IF a = fr.n[k].l THEN SetN(fr, k, "l", rot.b)
             ELSE IF a = fr.n[k].r THEN SetN(fr, k, "r", rot.b) ELSE fr
  IN
  IF f = 0
  THEN [m EXCEPT !.F = rot.F, !.H = [m.H EXCEPT !.root[k] = rot.b], !.e = e1]
  ELSE [m EXCEPT !.F = Wr(rot.F, f, fr1), !.e = e1]

(* The balance factor of a, with no rotation when the tree is unbalanced.  *)
InsAdjustNoRotation(m, k, s, fr, d, b, ar, pth) ==
  IF ~pth.ok THEN [m EXCEPT !.ok = FALSE] ELSE
  LET z   == ar.n[k].b = 0
      ar1 == IF z THEN SetB(ar, k, d) ELSE ar
      F3  == IF z THEN Wr(pth.F, s.a, ar1) ELSE pth.F
      c   == ar1.n[k].b + d = 0
      ar2 == IF c THEN SetB(ar1, k, 0) ELSE ar1
  IN [m EXCEPT !.F = IF c THEN Wr(F3, s.a, ar2) ELSE F3]

(* The balance factor of a, and the rotation when the tree is unbalanced.  *)
InsAdjust(m, k, s, fr, d, b, ar, pth) ==
  IF ~pth.ok THEN [m EXCEPT !.ok = FALSE] ELSE
  LET z   == ar.n[k].b = 0                        \* ar.n[k].b == 0
      ar1 == IF z THEN SetB(ar, k, d) ELSE ar
      F3  == IF z THEN Wr(pth.F, s.a, ar1) ELSE pth.F
      c   == ar1.n[k].b + d = 0                   \* (ar.n[k].b + d) == 0
      ar2 == IF c THEN SetB(ar1, k, 0) ELSE ar1
      F4  == IF c THEN Wr(F3, s.a, ar2) ELSE F3
  IN
  IF z \/ c THEN [m EXCEPT !.F = F4]
  ELSE IF b \notin DOMAIN F4 THEN [m EXCEPT !.ok = FALSE]
  ELSE InsRelink(m, k, s.a, s.f, fr, d,
                 IF d = 1 THEN InsRotL(F4, k, s.a, ar2, b) ELSE InsRotR(F4, k, s.a, ar2, b))

(* The balance factors between a and y, in the file F1 that holds y. *)
InsClimb(m, y, k, yr, s, F1) ==
  LET ar == F1[s.a]
      d  == IF cmp_test(k, yr.b, ar.b) < 0 THEN 1 ELSE -1
      b  == IF cmp_test(k, yr.b, ar.b) < 0 THEN ar.n[k].l ELSE ar.n[k].r
  IN InsAdjust(m, k, s, IF s.f > 0 THEN m.F[s.f] ELSE yr, d, b, ar,
               InsPath(F1, k, yr.b, y, b, Fuel(F1)))

(* y is linked below q, the last node of the descent s. *)
InsLink(m, y, k, yr, s) ==
  IF ~s.ok THEN [m EXCEPT !.ok = FALSE] ELSE
  LET qr  == m.F[s.q]
      lt  == cmp_test(k, yr.b, qr.b) < 0
      yr1 == [yr EXCEPT !.n[k] = IF lt THEN Node(0, s.p, -s.q) ELSE Node(0, -s.q, s.p)]
      qr1 == IF lt THEN SetN(qr, k, "l", y) ELSE SetN(qr, k, "r", y)
  IN InsClimb(m, y, k, yr, s, Wr(Wr(m.F, y, yr1), s.q, qr1))

(* One pass of insert's loop over the keys: y goes into tree k. *)
InsertKey(m, y, k) ==
  IF ~m.ok THEN m
  ELSE IF m.H.root[k] <= 0
  THEN [m EXCEPT !.F = Wr(m.F, y, [m.F[y] EXCEPT !.n[k] = Node(0, 0, 0)]),
                 !.H = [m.H EXCEPT !.root[k] = y]]
  ELSE InsLink(m, y, k, m.F[y],
               InsDescend(m.F, k, m.F[y].b, m.H.root[k], 0, m.H.root[k], 0, Fuel(m.F)))

RECURSIVE InsertKeys(_, _, _, _)
InsertKeys(m, y, k, nk) ==
  IF k >= nk THEN m ELSE InsertKeys(InsertKey(m, y, k), y, k + 1, nk)

(* What insert returns once y is in every tree. *)
InsDone(y, m) ==
  [ok |-> m.ok, ret |-> 0, F |-> m.F, H |-> [m.H EXCEPT !.n_avl = Inc64(@)], e |-> m.e, y |-> y]

(* y, taken from the empty list or the end of the file (y0 is what it      *)
(* held), goes to the head of the sequential list and into the trees.      *)
InsSeq(H1, F, nk, y, y0, data) ==
  LET p  == H1.head_seq
      yr == [y0 EXCEPT !.prev = 0, !.next = p, !.b = data]
      F1 == IF p > 0 THEN Wr(F, p, [F[p] EXCEPT !.prev = y]) ELSE F
  IN
  IF p > 0 /\ p \notin DOMAIN F
  THEN [ok |-> FALSE, ret |-> -1, F |-> F, H |-> H1, e |-> "", y |-> 0]
  ELSE InsDone(y, InsertKeys([ok |-> TRUE, F |-> Wr(F1, y, yr),
                              H |-> [H1 EXCEPT !.head_seq = y], e |-> ""], y, 0, nk))

(* An insert that sets no message at the limit of n_avl. *)
InsertNoMsg(H, F, nk, data, wrap) ==
  LET e == H.head_empty IN
  IF NAvlLimit(H.n_avl, wrap)
  THEN [ok |-> TRUE, ret |-> -1, F |-> F, H |-> H, e |-> "", y |-> 0]
  ELSE IF e = 0 THEN InsSeq(H, F, nk, FileEnd(H, F), UninitRec(nk), data)
  ELSE IF e \notin DOMAIN F
  THEN [ok |-> FALSE, ret |-> -1, F |-> F, H |-> H, e |-> "", y |-> 0]
  ELSE InsSeq([H EXCEPT !.head_empty = F[e].next], F, nk, e, F[e], data)

(* An insert that always extends the file. *)
InsertAtEnd(H, F, nk, data, wrap) ==
  IF NAvlLimit(H.n_avl, wrap)
  THEN [ok |-> TRUE, ret |-> -1, F |-> F, H |-> H, e |-> "30 n_avl limit reached", y |-> 0]
  ELSE InsSeq(H, F, nk, FileEnd(H, F), UninitRec(nk), data)

(* The whole of avl_file_insert on header H and file F. *)
Insert(H, F, nk, data, wrap) ==
  LET e == H.head_empty IN
  IF NAvlLimit(H.n_avl, wrap)
  THEN [ok |-> TRUE, ret |-> -1, F |-> F, H |-> H, e |-> "30 n_avl limit reached", y |-> 0]
  ELSE IF e = 0 THEN InsSeq(H, F, nk, FileEnd(H, F), UninitRec(nk), data)
  ELSE IF e \notin DOMAIN F
  THEN [ok |-> FALSE, ret |-> -1, F |-> F, H |-> H, e |-> "", y |-> 0]
  ELSE InsSeq([H EXCEPT !.head_empty = F[e].next], F, nk, e, F[e], data)

avl_file_insert(h, data, maxrec) ==
  /\ IsOpen(h)
  /\ GateFree(h)
  /\ hdr.n_avl < maxrec
  /\ \E wrap \in Wraps(hdr.n_avl) :
     LET r == Insert(hdr, rec, handle[h].n_keys, data, wrap) IN
     /\ r.ok
     /\ rec' = r.F
     /\ hdr' = r.H
     /\ ret' = r.ret
     /\ emsg' = IF r.e = "" THEN emsg ELSE r.e
     /\ order' = IF r.ret = 0 THEN <<r.y>> \o order ELSE order
  /\ UNCHANGED <<thread, nums, user, count>>
  /\ op' = Call("insert", h, 0, data)
  /\ out' = data
  /\ iter' = NoIter
  /\ UNCHANGED <<handle, lock>>

----------------------------------------------------------------------------
(* Searches shared by delete, update, startge and squash. *)

(* The descent that goes right at an equal record: it ends at the first    *)
(* record greater than b.                                                  *)
RECURSIVE GeDescendStrict(_, _, _, _, _)
GeDescendStrict(F, k, b, a, fuel) ==
  IF a <= 0 THEN [ok |-> TRUE, a |-> a]
  ELSE IF fuel = 0 \/ a \notin DOMAIN F THEN [ok |-> FALSE, a |-> a]
  ELSE LET ar == F[a] IN
       IF cmp_test(k, b, ar.b) < 0
       THEN IF ar.n[k].l > 0 THEN GeDescendStrict(F, k, b, ar.n[k].l, fuel - 1)
            ELSE [ok |-> TRUE, a |-> a]
       ELSE IF ar.n[k].r > 0 THEN GeDescendStrict(F, k, b, ar.n[k].r, fuel - 1)
            ELSE [ok |-> TRUE, a |-> -ar.n[k].r]

(* The descent of avl_file_startge (and of delete's first search): the     *)
(* first record in key order that is not less than b, or 0.                *)
RECURSIVE GeDescend(_, _, _, _, _)
GeDescend(F, k, b, a, fuel) ==
  IF a <= 0 THEN [ok |-> TRUE, a |-> a]
  ELSE IF fuel = 0 \/ a \notin DOMAIN F THEN [ok |-> FALSE, a |-> a]
  ELSE LET ar == F[a] IN
       IF cmp_test(k, b, ar.b) <= 0
       THEN IF ar.n[k].l > 0 THEN GeDescend(F, k, b, ar.n[k].l, fuel - 1)
            ELSE [ok |-> TRUE, a |-> a]
       ELSE IF ar.n[k].r > 0 THEN GeDescend(F, k, b, ar.n[k].r, fuel - 1)
            ELSE [ok |-> TRUE, a |-> -ar.n[k].r]

(* The rightmost node of the subtree at sp (the last one in key order). *)
RECURSIVE Rightmost(_, _, _, _)
Rightmost(F, k, sp, fuel) ==
  IF fuel = 0 \/ sp \notin DOMAIN F THEN [ok |-> FALSE, sp |-> sp]
  ELSE IF F[sp].n[k].r > 0 THEN Rightmost(F, k, F[sp].n[k].r, fuel - 1)
  ELSE [ok |-> TRUE, sp |-> sp]

RECURSIVE Leftmost(_, _, _, _)
Leftmost(F, k, sp, fuel) ==
  IF fuel = 0 \/ sp \notin DOMAIN F THEN [ok |-> FALSE, sp |-> sp]
  ELSE IF F[sp].n[k].l > 0 THEN Leftmost(F, k, F[sp].n[k].l, fuel - 1)
  ELSE [ok |-> TRUE, sp |-> sp]

(* The record before ar in key order: through the left subtree, or by the  *)
(* thread.                                                                 *)
PrevOf(F, k, ar) ==
  IF ar.n[k].l > 0 THEN Rightmost(F, k, ar.n[k].l, Fuel(F))
  ELSE [ok |-> TRUE, sp |-> -ar.n[k].l]

NextOf(F, k, ar) ==
  IF ar.n[k].r > 0 THEN Leftmost(F, k, ar.n[k].r, Fuel(F))
  ELSE [ok |-> TRUE, sp |-> -ar.n[k].r]

AllKeysEqual(nk, a, b) == \A i \in Keys(nk) : cmp_test(i, a, b) = 0

(* What the search with a stack accepts at pa[l]: delete's first use wants *)
(* equal keys and an equal record, update's equal keys, and the paths of   *)
(* delete and squash the record at offset y.                               *)
Accept(mode, nk, yb, y, pos, r) ==
  CASE mode = "record" -> AllKeysEqual(nk, yb, r.b) /\ yb = r.b
    [] mode = "keys"   -> AllKeysEqual(nk, yb, r.b)
    [] OTHER           -> pos = y

(* The search with pa[], par[] and stack[]: pa holds pa[0..l] and par      *)
(* holds par[0..l-1], the record at pa[l] being read next.  Equal keys go  *)
(* left and are stacked; when the descent leaves the tree the last stacked *)
(* node is tried, and the search goes on to its right if it is refused.    *)
RECURSIVE PathSearch(_, _, _, _, _, _, _, _, _, _)
PathSearch(F, k, yb, mode, nk, y, pa, par, stack, fuel) ==
  LET l   == Len(pa) - 1
      cur == pa[l + 1]
  IN
  IF fuel = 0 THEN [ok |-> FALSE, found |-> FALSE, l |-> 0, pa |-> pa, par |-> par]
  ELSE IF cur > 0
  THEN IF cur \notin DOMAIN F
       THEN [ok |-> FALSE, found |-> FALSE, l |-> 0, pa |-> pa, par |-> par]
       ELSE LET r == F[cur]
                i == cmp_test(k, yb, r.b)
            IN PathSearch(F, k, yb, mode, nk, y,
                          Append(pa, IF i <= 0 THEN r.n[k].l ELSE r.n[k].r),
                          Append(par, r),
                          IF i = 0 THEN Append(stack, l) ELSE stack,
                          fuel - 1)
  ELSE IF Len(stack) > 0
  THEN LET t == stack[Len(stack)] IN
       IF Accept(mode, nk, yb, y, pa[t + 1], par[t + 1])
       THEN [ok |-> TRUE, found |-> TRUE, l |-> t,
             pa |-> SubSeq(pa, 1, t + 1), par |-> SubSeq(par, 1, t + 1)]
       ELSE PathSearch(F, k, yb, mode, nk, y,
                       Append(SubSeq(pa, 1, t + 1), par[t + 1].n[k].r),
                       SubSeq(par, 1, t + 1),
                       SubSeq(stack, 1, Len(stack) - 1),
                       fuel - 1)
  ELSE [ok |-> TRUE, found |-> FALSE, l |-> 0, pa |-> pa, par |-> par]

FindPath(F, k, yb, mode, nk, y, root) ==
  PathSearch(F, k, yb, mode, nk, y, <<root>>, <<>>, <<>>, 3 * Fuel(F))

(* The sequential search of delete for an equal record. *)
RECURSIVE SeqSearch(_, _, _, _)
SeqSearch(F, yb, a, fuel) ==
  IF a <= 0 THEN [ok |-> TRUE, a |-> 0]
  ELSE IF fuel = 0 \/ a \notin DOMAIN F THEN [ok |-> FALSE, a |-> 0]
  ELSE IF F[a].b = yb THEN [ok |-> TRUE, a |-> a]
  ELSE SeqSearch(F, yb, F[a].next, fuel - 1)

----------------------------------------------------------------------------
(* avl_file_delete *)

(* The first search: by each key in turn, the first record not less than   *)
(* the buffer; it is the one if it is equal in that key and bytewise.      *)
RECURSIVE DelSearch1(_, _, _, _, _)
DelSearch1(F, H, nk, yb, k) ==
  IF k >= nk THEN [ok |-> TRUE, y |-> 0]
  ELSE LET g == GeDescend(F, k, yb, H.root[k], Fuel(F)) IN
       IF ~g.ok \/ (g.a > 0 /\ g.a \notin DOMAIN F) THEN [ok |-> FALSE, y |-> 0]
       ELSE IF g.a > 0 /\ cmp_test(k, yb, F[g.a].b) = 0 /\ yb = F[g.a].b
       THEN [ok |-> TRUE, y |-> g.a]
       ELSE DelSearch1(F, H, nk, yb, k + 1)

(* The search of update put in the place of delete's: it stops at a record *)
(* equal to the buffer in every key.                                       *)
DelFindByKeys(F, H, nk, yb) ==
  LET s == IF nk > 0 THEN FindPath(F, 0, yb, "keys", nk, 0, H.root[0])
           ELSE [ok |-> TRUE, found |-> FALSE, l |-> 0, pa |-> <<0>>, par |-> <<>>]
  IN [ok |-> s.ok, y |-> IF s.ok /\ s.found THEN s.pa[s.l + 1] ELSE 0]

(* The three searches of delete: the offset of the record to delete, or 0. *)
DelFind(F, H, nk, yb) ==
  LET s1 == DelSearch1(F, H, nk, yb, 0) IN
  IF ~s1.ok \/ s1.y # 0 THEN s1
  ELSE
  LET s2 == IF nk > 0 THEN FindPath(F, 0, yb, "record", nk, 0, H.root[0])
            ELSE [ok |-> TRUE, found |-> FALSE, l |-> 0, pa |-> <<0>>, par |-> <<>>]
  IN
  IF ~s2.ok THEN [ok |-> FALSE, y |-> 0]
  ELSE IF s2.found THEN [ok |-> TRUE, y |-> s2.pa[s2.l + 1]]
  ELSE LET s3 == SeqSearch(F, yb, H.head_seq, Fuel(F)) IN [ok |-> s3.ok, y |-> s3.a]

(* y's previous and next records for each key (ur.n[k].l and ur.n[k].r). *)
DelNeighbours(F, nk, yr) ==
  [k \in Keys(nk) |-> [l |-> PrevOf(F, k, yr), r |-> NextOf(F, k, yr)]]

(* DelAdvance without the sequential pointer. *)
DelAdvanceKeys(cpr, nk, y, yr, ur) ==
  [cpr EXCEPT !.n = [k \in Keys(nk) |->
                       [cpr.n[k] EXCEPT !.l = IF @ = y THEN ur[k].l.sp ELSE @,
                                        !.r = IF @ = y THEN ur[k].r.sp ELSE @]]]

(* One current-pointer record advanced past y. *)
DelAdvance(cpr, nk, y, yr, ur) ==
  [cpr EXCEPT !.prev = IF @ = y THEN yr.next ELSE @,
              !.n = [k \in Keys(nk) |->
                       [cpr.n[k] EXCEPT !.l = IF @ = y THEN ur[k].l.sp ELSE @,
                                        !.r = IF @ = y THEN ur[k].r.sp ELSE @]]]

(* The loop over the current-pointer list. *)
RECURSIVE DelCursors(_, _, _, _, _, _, _)
DelCursors(F, nk, cp, y, yr, ur, fuel) ==
  IF cp <= 0 THEN [ok |-> TRUE, F |-> F]
  ELSE IF fuel = 0 \/ cp \notin DOMAIN F THEN [ok |-> FALSE, F |-> F]
  ELSE LET cpr == F[cp]
           c1  == DelAdvance(cpr, nk, y, yr, ur)
       IN DelCursors(IF c1 # cpr THEN Wr(F, cp, c1) ELSE F, nk, cpr.next, y, yr, ur, fuel - 1)

Other(s) == IF s = "l" THEN "r" ELSE "l"

(* The rotation of delete's re-balancing around a, whose balance is +2     *)
(* (s = "l": b is the left child) or -2 (s = "r"): the file, and the new   *)
(* root of the subtree with its record.                                    *)
DelRot(F, k, a, ar, s) ==
  LET o  == Other(s)
      sg == IF s = "l" THEN 1 ELSE -1
      b  == ar.n[k][s]
      no == [ok |-> FALSE, top |-> a, topr |-> ar, F |-> F, bad |-> FALSE]
  IN
  IF b \notin DOMAIN F THEN no ELSE
  LET br == F[b] IN
  IF br.n[k].b \in {0, sg}
  THEN LET z   == br.n[k].b = 0
           ar1 == SetB(SetN(ar, k, s, IF br.n[k][o] > 0 THEN br.n[k][o] ELSE -b),
                       k, IF z THEN sg ELSE 0)
           br1 == SetB(SetN(br, k, o, a), k, IF z THEN -sg ELSE 0)
       IN [ok |-> TRUE, top |-> b, topr |-> br1, F |-> Wr(Wr(F, a, ar1), b, br1), bad |-> FALSE]
  ELSE LET c == br.n[k][o] IN
       IF c \notin DOMAIN F THEN no ELSE
       LET cr  == F[c]
           cb  == cr.n[k].b
           br1 == SetN(br, k, o, IF cr.n[k][s] > 0 THEN cr.n[k][s] ELSE -c)
           ar1 == SetN(ar, k, s, IF cr.n[k][o] > 0 THEN cr.n[k][o] ELSE -c)
           ar2 == IF cb = sg THEN SetB(ar1, k, -sg)
                  ELSE IF cb \in {-sg, 0} THEN SetB(ar1, k, 0) ELSE ar1
           br2 == IF cb = -sg THEN SetB(br1, k, sg)
                  ELSE IF cb \in {sg, 0} THEN SetB(br1, k, 0) ELSE br1
           cr1 == SetB(SetN(SetN(cr, k, s, b), k, o, a), k, 0)
       IN [ok |-> TRUE, top |-> c, topr |-> cr1,
           F |-> Wr(Wr(Wr(F, a, ar2), b, br2), c, cr1), bad |-> cb \notin {-1, 0, 1}]

(* The parent record pr with its link to a replaced by v. *)
Relink(pr, k, a, v) ==
  IF pr.n[k].l = a THEN SetN(pr, k, "l", v)
  ELSE IF pr.n[k].r = a THEN SetN(pr, k, "r", v) ELSE pr

RECURSIVE DelRebalance(_, _, _, _, _, _)

(* The re-balancing goes on after the rotation rot around pa[l], whose     *)
(* balance was bal.                                                        *)
DelRotated(m, k, pa, par, l, fuel, bal, rot) ==
  IF ~rot.ok THEN [m EXCEPT !.ok = FALSE] ELSE
  LET e1   == IF rot.bad THEN (IF bal = 2 THEN "41 invalid value n.b"
                                          ELSE "42 invalid value n.b")
              ELSE m.e
      pa1  == [pa EXCEPT ![l + 1] = rot.top]
      par1 == [par EXCEPT ![l + 1] = rot.topr]
      pr1  == Relink(par[l], k, pa[l + 1], rot.top)
  IN
  IF l = 0
  THEN DelRebalance([m EXCEPT !.F = rot.F, !.H = [m.H EXCEPT !.root[k] = rot.top],
                              !.e = e1], k, pa1, par1, l, fuel - 1)
  ELSE DelRebalance([m EXCEPT !.F = Wr(rot.F, pa[l], pr1), !.e = e1], k, pa1,
                    [par1 EXCEPT ![l] = pr1], l, fuel - 1)

(* The re-balancing loop, from pa[l] up.  m = [ok, F, H, e]. *)
DelRebalance(m, k, pa, par, l, fuel) ==
  IF l < 0 THEN m
  ELSE IF fuel = 0 THEN [m EXCEPT !.ok = FALSE]
  ELSE
  LET a   == pa[l + 1]
      ar  == par[l + 1]
      bal == par[l + 1].n[k].b
  IN
  IF bal \in {1, -1} THEN m
  ELSE IF bal = 0
  THEN IF l = 0 THEN m
       ELSE LET pr  == par[l]
                pr1 == IF pr.n[k].l = a THEN SetB(pr, k, pr.n[k].b - 1)
                       ELSE IF pr.n[k].r = a THEN SetB(pr, k, pr.n[k].b + 1) ELSE pr
            IN DelRebalance([m EXCEPT !.F = Wr(m.F, pa[l], pr1)], k, pa,
                            [par EXCEPT ![l] = pr1], l - 1, fuel - 1)
  ELSE IF bal \in {2, -2}
  THEN DelRotated(m, k, pa, par, l, fuel, bal,
                  DelRot(m.F, k, a, ar, IF bal = 2 THEN "l" ELSE "r"))
  ELSE [m EXCEPT !.e = "43 bad balance factor"]

(* The path below pa[l] along side s, to the node without an s child. *)
RECURSIVE DelExtend(_, _, _, _, _, _)
DelExtend(F, k, s, pa, par, fuel) ==
  LET nx == par[Len(par)].n[k][s] IN
  IF nx <= 0 THEN [ok |-> TRUE, pa |-> pa, par |-> par]
  ELSE IF fuel = 0 \/ nx \notin DOMAIN F THEN [ok |-> FALSE, pa |-> pa, par |-> par]
  ELSE DelExtend(F, k, s, Append(pa, nx), Append(par, F[nx]), fuel - 1)

(* The path a "remove and replace" leaves when it cannot go on. *)
DelNo(m, p) == [m |-> [m EXCEPT !.ok = FALSE], pa |-> p.pa, par |-> p.par, l |-> -1]

(* The node pm that replaced y is linked to y's parent, or made the root.  *)
DelSwapLink(m, k, y, mm, l, pm, pa2, par2, F3) ==
  IF mm = 0
  THEN [m |-> [m EXCEPT !.F = F3, !.H = [m.H EXCEPT !.root[k] = pm]],
        pa |-> pa2, par |-> par2, l |-> l - 1]
  ELSE LET pr  == par2[mm]
           pr1 == IF pr.n[k].l = y THEN SetN(pr, k, "l", pm) ELSE SetN(pr, k, "r", pm)
       IN [m |-> [m EXCEPT !.F = Wr(F3, pa2[mm], pr1)],
           pa |-> pa2, par |-> [par2 EXCEPT ![mm] = pr1], l |-> l - 1]

(* The last node of the path x takes the place of y. *)
DelSwap(m, k, s, y, yr, ur, p, x) ==
  IF ~x.ok THEN DelNo(m, p) ELSE
  LET o    == Other(s)
      sg   == IF s = "l" THEN 1 ELSE -1
      mm   == p.l
      l    == Len(x.pa) - 1
      deep == Len(x.pa) - 1 > p.l + 1
      rr   == x.par[l + 1]                      \* par[l], the node that replaces y
      up   == x.par[l]                          \* par[l-1]
      up1  == SetB(SetN(up, k, o, IF rr.n[k][s] > 0 THEN rr.n[k][s] ELSE -x.pa[l + 1]),
                   k, up.n[k].b + sg)
      yn   == IF deep THEN yr.n[k]
              ELSE [yr.n[k] EXCEPT ![s] = rr.n[k][s], !.b = @ - sg]
      pm   == x.pa[l + 1]                       \* pa[m] = pa[l]
      rm   == [rr EXCEPT !.n[k] = yn]           \* par[m] = par[l]; par[m].n[k] = yr.n[k]
      F2   == Wr(IF deep THEN Wr(m.F, x.pa[l], up1) ELSE m.F, pm, rm)
      sp   == ur[k][o].sp
      thr  == yn[o] > 0
  IN
  IF thr /\ sp \notin DOMAIN F2 THEN DelNo(m, p)
  ELSE DelSwapLink(m, k, y, mm, l, pm,
                   SubSeq([x.pa EXCEPT ![mm + 1] = pm], 1, l),
                   SubSeq([(IF deep THEN [x.par EXCEPT ![l] = up1] ELSE x.par)
                             EXCEPT ![mm + 1] = rm], 1, l),
                   IF thr THEN Wr(F2, sp, SetN(F2[sp], k, s, -pm)) ELSE F2)

(* "Remove and replace" when y has a subtree on side s: s = "l" takes the  *)
(* last node of the left subtree, s = "r" (reached only when there is no   *)
(* left subtree) the first node of the right one.  Returns the file, the   *)
(* header and the path to re-balance from.                                 *)
DelReplace(m, k, s, y, yr, ur, p) ==
  LET c1 == p.par[p.l + 1].n[k][s] IN
  IF c1 \notin DOMAIN m.F THEN DelNo(m, p)
  ELSE DelSwap(m, k, s, y, yr, ur, p,
               DelExtend(m.F, k, Other(s), Append(p.pa, c1), Append(p.par, m.F[c1]),
                         Fuel(m.F)))

(* DelLeaf without the change of the parent's balance factor. *)
DelLeafSameBalance(m, k, y, yr, p) ==
  LET mm == p.l IN
  IF mm = 0
  THEN [m |-> [m EXCEPT !.H = [m.H EXCEPT !.root[k] = 0]], pa |-> p.pa, par |-> p.par, l |-> -1]
  ELSE LET pr  == p.par[mm]
           pr1 == IF pr.n[k].l = y THEN SetN(pr, k, "l", yr.n[k].l)
                  ELSE IF pr.n[k].r = y THEN SetN(pr, k, "r", yr.n[k].r)
                  ELSE pr
       IN [m |-> [m EXCEPT !.F = Wr(m.F, p.pa[mm], pr1)],
           pa |-> p.pa, par |-> [p.par EXCEPT ![mm] = pr1], l |-> mm - 1]

(* "Remove and replace" when y has no sub-trees. *)
DelLeaf(m, k, y, yr, p) ==
  LET mm == p.l IN
  IF mm = 0
  THEN [m |-> [m EXCEPT !.H = [m.H EXCEPT !.root[k] = 0]], pa |-> p.pa, par |-> p.par, l |-> -1]
  ELSE LET pr  == p.par[mm]
           pr1 == IF pr.n[k].l = y
                  THEN SetB(SetN(pr, k, "l", yr.n[k].l), k, pr.n[k].b - 1)
                  ELSE IF pr.n[k].r = y
                  THEN SetB(SetN(pr, k, "r", yr.n[k].r), k, pr.n[k].b + 1)
                  ELSE pr
       IN [m |-> [m EXCEPT !.F = Wr(m.F, p.pa[mm], pr1)],
           pa |-> p.pa, par |-> [p.par EXCEPT ![mm] = pr1], l |-> mm - 1]

(* The re-balancing from the path x that "remove and replace" left. *)
DelKeyBal(k, x, fuel) == DelRebalance(x.m, k, x.pa, x.par, x.l, fuel)

(* DelRemove with the right subtree looked at first. *)
DelRemoveRightFirst(m, k, y, yr, ur, p) ==
  LET ym == p.par[p.l + 1] IN
  IF ym.n[k].r > 0 THEN DelReplace(m, k, "r", y, yr, ur, p)
  ELSE IF ym.n[k].l > 0 THEN DelReplace(m, k, "l", y, yr, ur, p)
  ELSE DelLeaf(m, k, y, yr, p)

(* "Remove and replace" for y at the end of the path p: the left subtree   *)
(* is looked at first, the right one when there is no left one.            *)
DelRemove(m, k, y, yr, ur, p) ==
  LET ym == p.par[p.l + 1] IN
  IF ym.n[k].l > 0 THEN DelReplace(m, k, "l", y, yr, ur, p)
  ELSE IF ym.n[k].r > 0 THEN DelReplace(m, k, "r", y, yr, ur, p)
  ELSE DelLeaf(m, k, y, yr, p)

(* y, found by the path p, leaves tree k. *)
DelKeyAt(m, k, y, yr, ur, p) ==
  IF ~p.ok THEN [m EXCEPT !.ok = FALSE]
  ELSE IF ~p.found THEN [m EXCEPT !.e = "40 not in the tree"]
  ELSE DelKeyBal(k, DelRemove(m, k, y, yr, ur, p), 3 * Fuel(m.F))

(* One pass of the loop that removes y from tree k. *)
DelKey(m, nk, y, yr, ur, k) ==
  IF ~m.ok THEN m
  ELSE DelKeyAt(m, k, y, yr, ur, FindPath(m.F, k, yr.b, "path", nk, y, m.H.root[k]))

RECURSIVE DelKeys(_, _, _, _, _, _)
DelKeys(m, nk, y, yr, ur, k) ==
  IF k >= nk THEN m ELSE DelKeys(DelKey(m, nk, y, yr, ur, k), nk, y, yr, ur, k + 1)

(* DelUnlink without the change of hdr.head_seq. *)
DelUnlinkSameHead(m, y, yr) ==
  LET a  == yr.next
      F1 == IF a > 0 THEN Wr(m.F, a, [m.F[a] EXCEPT !.prev = yr.prev]) ELSE m.F
      hd == m.H.head_seq = y
      p  == yr.prev
  IN
  IF ~m.ok \/ (a > 0 /\ a \notin DOMAIN m.F) \/ (~hd /\ p \notin DOMAIN m.F)
  THEN [m EXCEPT !.ok = FALSE]
  ELSE IF hd THEN [m EXCEPT !.F = F1]
  ELSE [m EXCEPT !.F = Wr(F1, p, [F1[p] EXCEPT !.next = yr.next])]

(* y taken off the sequential list. *)
DelUnlink(m, y, yr) ==
  LET a  == yr.next
      F1 == IF a > 0 THEN Wr(m.F, a, [m.F[a] EXCEPT !.prev = yr.prev]) ELSE m.F
      hd == m.H.head_seq = y
      p  == yr.prev
  IN
  IF ~m.ok \/ (a > 0 /\ a \notin DOMAIN m.F) \/ (~hd /\ p \notin DOMAIN m.F)
  THEN [m EXCEPT !.ok = FALSE]
  ELSE IF hd THEN [m EXCEPT !.F = F1, !.H = [m.H EXCEPT !.head_seq = yr.next]]
  ELSE [m EXCEPT !.F = Wr(F1, p, [F1[p] EXCEPT !.next = yr.next])]

(* What delete returns when the call does not return. *)
DelFail(H, F) == [ok |-> FALSE, ret |-> -1, F |-> F, H |-> H, e |-> "", y |-> 0]

(* y, out of the trees and off the sequential list in m2, goes to the head *)
(* of the empty list.                                                      *)
DelDone(H, F, nk, y, yr, m2) ==
  IF ~m2.ok THEN DelFail(H, F)
  ELSE [ok |-> TRUE, ret |-> 0,
        F |-> Wr(m2.F, y, [yr EXCEPT !.next = m2.H.head_empty, !.prev = 0,
                                     !.n = [k \in Keys(nk) |-> Node(TagEmpty, 0, 0)]]),
        H |-> [m2.H EXCEPT !.head_empty = y, !.n_avl = @ - 1], e |-> m2.e, y |-> y]

(* The record yr at y is deleted; ur holds its neighbours in every tree. *)
DelAt(H, F, nk, y, yr, ur, c) ==
  IF (\E k \in Keys(nk) : ~ur[k].l.ok \/ ~ur[k].r.ok) \/ ~c.ok THEN DelFail(H, F)
  ELSE DelDone(H, F, nk, y, yr,
               DelUnlink(DelKeys([ok |-> TRUE, F |-> c.F, H |-> H, e |-> ""],
                                 nk, y, yr, ur, 0), y, yr))

(* Delete, the searches s done. *)
DelFound(H, F, nk, s, ur) ==
  IF ~s.ok THEN DelFail(H, F)
  ELSE IF s.y = 0 THEN [ok |-> TRUE, ret |-> -1, F |-> F, H |-> H, e |-> "", y |-> 0]
  ELSE DelAt(H, F, nk, s.y, F[s.y], ur,
             DelCursors(F, nk, H.head_cpr, s.y, F[s.y], ur, Fuel(F)))

(* y's neighbours, for a search s that found y. *)
DelAround(F, nk, s) ==
  IF s.ok /\ s.y # 0 THEN DelNeighbours(F, nk, F[s.y]) ELSE <<>>

(* The whole of avl_file_delete on header H and file F. *)
DelSearched(H, F, nk, s) == DelFound(H, F, nk, s, DelAround(F, nk, s))

Delete(H, F, nk, data) == DelSearched(H, F, nk, DelFind(F, H, nk, data))

avl_file_delete(h, data) ==
  /\ IsOpen(h)
  /\ GateFree(h)
  /\ LET r == Delete(hdr, rec, handle[h].n_keys, data) IN
     /\ r.ok
     /\ rec' = r.F
     /\ hdr' = r.H
     /\ ret' = r.ret
     /\ emsg' = IF r.e = "" THEN emsg ELSE r.e
     /\ order' = IF r.ret = 0 THEN SelectSeq(order, LAMBDA x : x # r.y) ELSE order
     /\ iter' = IF iter.kind = "none" \/ iter.h = h THEN NoIter
                ELSE IF r.ret = 0 THEN [iter EXCEPT !.del = Append(@, r.y)]
                ELSE iter
  /\ UNCHANGED <<thread, nums, user, count>>
  /\ op' = Call("delete", h, 0, data)
  /\ out' = data
  /\ UNCHANGED <<handle, lock>>

----------------------------------------------------------------------------
(* avl_file_update *)

(* The search of update with key 0 alone compared. *)
UpdateFirstKey(H, F, nk, data) ==
  LET s == IF nk > 0 THEN FindPath(F, 0, data, "keys", 1, 0, H.root[0])
           ELSE [ok |-> TRUE, found |-> FALSE, l |-> 0, pa |-> <<0>>, par |-> <<>>]
  IN
  IF ~s.ok THEN [ok |-> FALSE, ret |-> -1, F |-> F, y |-> 0]
  ELSE IF ~s.found THEN [ok |-> TRUE, ret |-> -1, F |-> F, y |-> 0]
  ELSE LET y  == s.pa[s.l + 1]
           yr == s.par[s.l + 1]
       IN [ok |-> TRUE, ret |-> 0, F |-> Wr(F, y, [yr EXCEPT !.b = data]), y |-> y]

(* The search for a record equal to the buffer in every key, and the       *)
(* payload written over it.                                                *)
Update(H, F, nk, data) ==
  LET s == IF nk > 0 THEN FindPath(F, 0, data, "keys", nk, 0, H.root[0])
           ELSE [ok |-> TRUE, found |-> FALSE, l |-> 0, pa |-> <<0>>, par |-> <<>>]
  IN
  IF ~s.ok THEN [ok |-> FALSE, ret |-> -1, F |-> F, y |-> 0]
  ELSE IF ~s.found THEN [ok |-> TRUE, ret |-> -1, F |-> F, y |-> 0]
  ELSE LET y  == s.pa[s.l + 1]
           yr == s.par[s.l + 1]
       IN [ok |-> TRUE, ret |-> 0, F |-> Wr(F, y, [yr EXCEPT !.b = data]), y |-> y]

avl_file_update(h, data) ==
  /\ IsOpen(h)
  /\ GateFree(h)
  /\ LET r == Update(hdr, rec, handle[h].n_keys, data) IN
     /\ r.ok
     /\ rec' = r.F
     /\ ret' = r.ret
  /\ UNCHANGED <<thread, nums, user, count>>
  /\ op' = Call("update", h, 0, data)
  /\ out' = data
  /\ iter' = NoIter
  /\ UNCHANGED <<hdr, handle, lock, emsg, order>>

----------------------------------------------------------------------------
(* avl_file_startseq, avl_file_readseq *)

avl_file_startseq(h) ==
  LET cp == handle[h].cpr IN
  /\ IsOpen(h)
  /\ GateFree(h)
  /\ cp \in DOMAIN rec
  /\ rec' = Wr(rec, cp, [rec[cp] EXCEPT !.prev = hdr.head_seq])
  /\ UNCHANGED <<thread, nums, user, count>>
  /\ op' = Call("startseq", h, 0, Uninit)
  /\ iter' = Iter("seq", h, 0, 0)
  /\ UNCHANGED <<hdr, handle, lock, ret, out, emsg, order>>

(* readseq that leaves the sequential pointer where it is. *)
ReadSeqStay(F, cp, data) ==
  IF cp \notin DOMAIN F THEN [ok |-> FALSE, F |-> F, a |-> 0, ret |-> -1, b |-> data] ELSE
  LET cpr == F[cp]
      a   == cpr.prev
  IN
  IF a = 0 THEN [ok |-> TRUE, F |-> F, a |-> 0, ret |-> -1, b |-> data]
  ELSE IF a \notin DOMAIN F THEN [ok |-> FALSE, F |-> F, a |-> 0, ret |-> -1, b |-> data]
  ELSE [ok |-> TRUE, F |-> F, a |-> a, ret |-> 0, b |-> F[a].b]

(* The body of readseq: the record at the sequential pointer, which moves  *)
(* on to the next one.                                                     *)
ReadSeq(F, cp, data) ==
  IF cp \notin DOMAIN F THEN [ok |-> FALSE, F |-> F, a |-> 0, ret |-> -1, b |-> data] ELSE
  LET cpr == F[cp]
      a   == cpr.prev
  IN
  IF a = 0 THEN [ok |-> TRUE, F |-> F, a |-> 0, ret |-> -1, b |-> data]
  ELSE IF a \notin DOMAIN F THEN [ok |-> FALSE, F |-> F, a |-> 0, ret |-> -1, b |-> data]
  ELSE [ok |-> TRUE, F |-> Wr(F, cp, [cpr EXCEPT !.prev = F[a].next]), a |-> a, ret |-> 0,
        b |-> F[a].b]

avl_file_readseq(h, data) ==
  /\ IsOpen(h)
  /\ GateFree(h)
  /\ UNCHANGED <<thread, nums, user, count>>
  /\ op' = Call("readseq", h, 0, data)
  /\ LET r == ReadSeq(rec, handle[h].cpr, data) IN
     /\ r.ok
     /\ rec' = r.F
     /\ ret' = r.ret
     /\ out' = r.b
     /\ iter' = IF iter.kind = "seq" /\ iter.h = h
                THEN (IF r.ret = 0 THEN [iter EXCEPT !.got = Append(@, r.a)]
                      ELSE [iter EXCEPT !.end = TRUE])
                ELSE iter
  /\ UNCHANGED <<hdr, handle, lock, emsg, order>>

----------------------------------------------------------------------------
(* avl_file_startlt, avl_file_startge, avl_file_next, avl_file_prev,       *)
(* avl_file_find                                                           *)

(* A call that sets no message. *)
KeyMsgNone(name) == ""

(* The message of each function for a key index k < 0 or k >= n_keys;      *)
(* avl_file_find is a call of avl_file_startge.                            *)
KeyMsg(name) ==
  CASE name = "startlt" -> "70 the key index is out of bounds"
    [] name \in {"startge", "find"} -> "80 the key index is out of bounds"
    [] name = "next" -> "90 the key index is out of bounds"
    [] name = "prev" -> "100 the key index is out of bounds"
    [] name = "scan" -> "110 the key index is out of bounds"

(* The descent of avl_file_startlt: the last record in key order that is   *)
(* less than b, or 0.                                                      *)
RECURSIVE LtDescend(_, _, _, _, _)
LtDescend(F, k, b, a, fuel) ==
  IF a <= 0 THEN [ok |-> TRUE, a |-> a]
  ELSE IF fuel = 0 \/ a \notin DOMAIN F THEN [ok |-> FALSE, a |-> a]
  ELSE LET ar == F[a] IN
       IF cmp_test(k, b, ar.b) <= 0
       THEN IF ar.n[k].l > 0 THEN LtDescend(F, k, b, ar.n[k].l, fuel - 1)
            ELSE [ok |-> TRUE, a |-> -ar.n[k].l]
       ELSE IF ar.n[k].r > 0 THEN LtDescend(F, k, b, ar.n[k].r, fuel - 1)
            ELSE [ok |-> TRUE, a |-> a]

(* startge and startlt with the current pointers set to the children of    *)
(* the start record, no descent below them.                                *)
StartAtChild(F, k, cp, a) ==
  IF cp \notin DOMAIN F \/ (a > 0 /\ a \notin DOMAIN F) THEN [ok |-> FALSE, F |-> F]
  ELSE IF a > 0
  THEN LET ar == F[a]
           pl == IF ar.n[k].l > 0 THEN ar.n[k].l ELSE -ar.n[k].l
           pr == IF ar.n[k].r > 0 THEN ar.n[k].r ELSE -ar.n[k].r
       IN [ok |-> TRUE, F |-> Wr(F, cp, SetN(SetN(F[cp], k, "l", pl), k, "r", pr))]
  ELSE [ok |-> TRUE, F |-> Wr(F, cp, SetN(SetN(F[cp], k, "l", 0), k, "r", 0))]

(* The second half of startlt and startge: the current pointers of key k   *)
(* are set around the record at a, or cleared if there is none.            *)
StartAt(F, k, cp, a) ==
  IF cp \notin DOMAIN F \/ (a > 0 /\ a \notin DOMAIN F) THEN [ok |-> FALSE, F |-> F]
  ELSE IF a > 0
  THEN LET ar == F[a]
           pl == PrevOf(F, k, ar)
           pr == NextOf(F, k, ar)
       IN [ok |-> pl.ok /\ pr.ok,
           F |-> Wr(F, cp, SetN(SetN(F[cp], k, "l", pl.sp), k, "r", pr.sp))]
  ELSE [ok |-> TRUE, F |-> Wr(F, cp, SetN(SetN(F[cp], k, "l", 0), k, "r", 0))]

(* startlt (ge = FALSE) and startge (ge = TRUE) for a key within bounds. *)
Start(H, F, k, cp, data, ge) ==
  LET g == IF ge THEN GeDescend(F, k, data, H.root[k], Fuel(F))
           ELSE LtDescend(F, k, data, H.root[k], Fuel(F))
      s == StartAt(F, k, cp, g.a)
  IN [ok |-> g.ok /\ s.ok, F |-> s.F, a |-> g.a,
      ret |-> IF g.a > 0 THEN 0 ELSE -1,
      b |-> IF g.a > 0 /\ g.a \in DOMAIN F THEN F[g.a].b ELSE data]

avl_file_startlt(h, data, k) ==
  /\ IsOpen(h)
  /\ UNCHANGED <<thread, nums, user, count>>
  /\ op' = Call("startlt", h, k, data)
  /\ IF k < 0 \/ k >= handle[h].n_keys
     THEN /\ emsg' = KeyMsg("startlt")
          /\ ret' = -1
          /\ out' = data
          /\ UNCHANGED <<rec, iter>>
     ELSE LET r == Start(hdr, rec, k, handle[h].cpr, data, FALSE) IN
          /\ GateFree(h)
          /\ r.ok
          /\ rec' = r.F
          /\ ret' = r.ret
          /\ out' = r.b
          /\ iter' = Iter("lt", h, k, r.a)
          /\ UNCHANGED emsg
  /\ UNCHANGED <<hdr, handle, lock, order>>

avl_file_startge(h, data, k) ==
  /\ IsOpen(h)
  /\ UNCHANGED <<thread, nums, user, count>>
  /\ op' = Call("startge", h, k, data)
  /\ IF k < 0 \/ k >= handle[h].n_keys
     THEN /\ emsg' = KeyMsg("startge")
          /\ ret' = -1
          /\ out' = data
          /\ UNCHANGED <<rec, iter>>
     ELSE LET r == Start(hdr, rec, k, handle[h].cpr, data, TRUE) IN
          /\ GateFree(h)
          /\ r.ok
          /\ rec' = r.F
          /\ ret' = r.ret
          /\ out' = r.b
          /\ iter' = Iter("ge", h, k, r.a)
          /\ UNCHANGED emsg
  /\ UNCHANGED <<hdr, handle, lock, order>>

(* next and prev with the current pointer moved to the child of the record *)
(* read, no descent below it.                                              *)
StepChild(F, k, cp, data, s) ==
  IF cp \notin DOMAIN F THEN [ok |-> FALSE, F |-> F, a |-> 0, ret |-> -1, b |-> data] ELSE
  LET cpr == F[cp]
      a   == cpr.n[k][s]
  IN
  IF a <= 0 THEN [ok |-> TRUE, F |-> F, a |-> 0, ret |-> -1, b |-> data]
  ELSE IF a \notin DOMAIN F THEN [ok |-> FALSE, F |-> F, a |-> 0, ret |-> -1, b |-> data]
  ELSE LET ar == F[a]
           e  == IF ar.n[k][s] > 0 THEN ar.n[k][s] ELSE -ar.n[k][s]
       IN [ok |-> TRUE, F |-> Wr(F, cp, SetN(cpr, k, s, e)), a |-> a, ret |-> 0, b |-> ar.b]

(* Step that moves the pointer of the other side along with its own. *)
StepBoth(F, k, cp, data, s) ==
  IF cp \notin DOMAIN F THEN [ok |-> FALSE, F |-> F, a |-> 0, ret |-> -1, b |-> data] ELSE
  LET cpr == F[cp]
      a   == cpr.n[k][s]
  IN
  IF a <= 0 THEN [ok |-> TRUE, F |-> F, a |-> 0, ret |-> -1, b |-> data]
  ELSE IF a \notin DOMAIN F THEN [ok |-> FALSE, F |-> F, a |-> 0, ret |-> -1, b |-> data]
  ELSE LET ar == F[a]
           e  == IF s = "r" THEN NextOf(F, k, ar) ELSE PrevOf(F, k, ar)
       IN [ok |-> e.ok, F |-> Wr(F, cp, SetN(SetN(cpr, k, s, e.sp), k, Other(s), a)),
           a |-> a, ret |-> 0, b |-> ar.b]

(* next (s = "r") and prev (s = "l") for a key within bounds: the record   *)
(* at the current pointer, which moves on by one.                          *)
Step(F, k, cp, data, s) ==
  IF cp \notin DOMAIN F THEN [ok |-> FALSE, F |-> F, a |-> 0, ret |-> -1, b |-> data] ELSE
  LET cpr == F[cp]
      a   == cpr.n[k][s]
  IN
  IF a <= 0 THEN [ok |-> TRUE, F |-> F, a |-> 0, ret |-> -1, b |-> data]
  ELSE IF a \notin DOMAIN F THEN [ok |-> FALSE, F |-> F, a |-> 0, ret |-> -1, b |-> data]
  ELSE LET ar == F[a]
           e  == IF s = "r" THEN NextOf(F, k, ar) ELSE PrevOf(F, k, ar)
       IN [ok |-> e.ok, F |-> Wr(F, cp, SetN(cpr, k, s, e.sp)), a |-> a, ret |-> 0, b |-> ar.b]

avl_file_next(h, data, k) ==
  /\ IsOpen(h)
  /\ UNCHANGED <<thread, nums, user, count>>
  /\ op' = Call("next", h, k, data)
  /\ IF k < 0 \/ k >= handle[h].n_keys
     THEN /\ emsg' = KeyMsg("next")
          /\ ret' = -1
          /\ out' = data
          /\ UNCHANGED <<rec, iter>>
     ELSE LET r == Step(rec, k, handle[h].cpr, data, "r") IN
          /\ GateFree(h)
          /\ r.ok
          /\ rec' = r.F
          /\ ret' = r.ret
          /\ out' = r.b
          /\ iter' = IF iter.kind = "ge" /\ iter.h = h /\ iter.k = k
                     THEN (IF r.ret = 0 THEN [iter EXCEPT !.got = Append(@, r.a)]
                           ELSE [iter EXCEPT !.end = TRUE])
                     ELSE iter
          /\ UNCHANGED emsg
  /\ UNCHANGED <<hdr, handle, lock, order>>

avl_file_prev(h, data, k) ==
  /\ IsOpen(h)
  /\ UNCHANGED <<thread, nums, user, count>>
  /\ op' = Call("prev", h, k, data)
  /\ IF k < 0 \/ k >= handle[h].n_keys
     THEN /\ emsg' = KeyMsg("prev")
          /\ ret' = -1
          /\ out' = data
          /\ UNCHANGED <<rec, iter>>
     ELSE LET r == Step(rec, k, handle[h].cpr, data, "l") IN
          /\ GateFree(h)
          /\ r.ok
          /\ rec' = r.F
          /\ ret' = r.ret
          /\ out' = r.b
          /\ iter' = IF iter.kind = "lt" /\ iter.h = h /\ iter.k = k
                     THEN (IF r.ret = 0 THEN [iter EXCEPT !.got = Append(@, r.a)]
                           ELSE [iter EXCEPT !.end = TRUE])
                     ELSE iter
          /\ UNCHANGED emsg
  /\ UNCHANGED <<hdr, handle, lock, order>>

(* avl_file_find: startge on a copy of the buffer, and the record found is *)
(* handed back if it is equal to the buffer in key k.                      *)
avl_file_find(h, data, k) ==
  /\ IsOpen(h)
  /\ UNCHANGED <<thread, nums, user, count>>
  /\ op' = Call("find", h, k, data)
  /\ iter' = NoIter
  /\ IF k < 0 \/ k >= handle[h].n_keys
     THEN /\ emsg' = KeyMsg("find")
          /\ ret' = -1
          /\ out' = data
          /\ UNCHANGED rec
     ELSE LET r  == Start(hdr, rec, k, handle[h].cpr, data, TRUE)
              eq == r.ret = 0 /\ cmp_test(k, r.b, data) = 0
          IN
          /\ GateFree(h)
          /\ r.ok
          /\ rec' = r.F
          /\ ret' = IF eq THEN 0 ELSE -1
          /\ out' = IF eq THEN r.b ELSE data
          /\ UNCHANGED emsg
  /\ UNCHANGED <<hdr, handle, lock, order>>

----------------------------------------------------------------------------
(* avl_file_scan *)

NoScan == [ok |-> TRUE, h |-> 0, count |-> 0, bad |-> FALSE]

(* The scan that does not descend to the right. *)
RECURSIVE ScanAtLeft(_, _, _, _)
ScanAtLeft(F, k, sp, fuel) ==
  IF fuel = 0 \/ sp \notin DOMAIN F THEN [NoScan EXCEPT !.ok = FALSE]
  ELSE LET sr == F[sp]
           sl == IF sr.n[k].l > 0 THEN ScanAtLeft(F, k, sr.n[k].l, fuel - 1) ELSE NoScan
       IN [ok |-> sl.ok, h |-> 1 + sl.h, count |-> 1 + sl.count, bad |-> FALSE]

(* The recursive call at sp > 0: the height of the subtree at sp, the      *)
(* records counted in it, and whether "51 bad balance" was set in it.      *)
RECURSIVE ScanAt(_, _, _, _)
ScanAt(F, k, sp, fuel) ==
  IF fuel = 0 \/ sp \notin DOMAIN F THEN [NoScan EXCEPT !.ok = FALSE]
  ELSE LET sr == F[sp]
           sl == IF sr.n[k].l > 0 THEN ScanAt(F, k, sr.n[k].l, fuel - 1) ELSE NoScan
           sq == IF sr.n[k].r > 0 THEN ScanAt(F, k, sr.n[k].r, fuel - 1) ELSE NoScan
           hl == 1 + sl.h
           hr == 1 + sq.h
       IN [ok    |-> sl.ok /\ sq.ok,
           h     |-> IF hl > hr THEN hl ELSE hr,
           count |-> 1 + sl.count + sq.count,
           bad   |-> sl.bad \/ sq.bad \/ sr.n[k].b # hl - hr]

(* avl_file_scan (avl_fp, k, 0, &count), with *count = c before the call. *)
avl_file_scan(h, k, c) ==
  /\ IsOpen(h)
  /\ thread[h] = Idle
  /\ op' = Call("scan", h, k, Uninit)
  /\ IF k < 0 \/ k >= handle[h].n_keys
     THEN /\ ret' = -1
          /\ emsg' = KeyMsg("scan")
          /\ count' = c
          /\ UNCHANGED lock
     ELSE LET s == IF hdr.root[k] > 0 THEN ScanAt(rec, k, hdr.root[k], Fuel(rec))
                                     ELSE NoScan
          IN
          /\ GateFree(h)
          /\ s.ok
          /\ ret' = s.h
          /\ count' = c + s.count
          /\ emsg' = IF c + s.count # hdr.n_avl THEN "50 count != hdr.n_avl"
                     ELSE IF s.bad THEN "51 bad balance"
                     ELSE emsg
          /\ lock' = Unlock(lock, ProcOf(h), 0)
  /\ UNCHANGED <<hdr, rec, handle, out, order, iter, thread, nums, user>>

----------------------------------------------------------------------------
(* avl_file_lock and avl_file_unlock *)

(* lseek (fd, 1, SEEK_SET); lockf (fd, F_LOCK, 1): returns when no other   *)
(* process holds a lock on byte 1.                                         *)
avl_file_lock(h) ==
  /\ IsOpen(h)
  /\ thread[h] = Idle
  /\ ~LockedByOther(lock, ProcOf(h), 1)
  /\ lock' = lock \cup {<<ProcOf(h), 1>>}
  /\ user' = user \cup {h}
  /\ op' = Call("lock", h, 0, Uninit)
  /\ UNCHANGED <<hdr, rec, handle, ret, out, emsg, order, iter, thread, nums, count>>

(* lseek (fd, 1, SEEK_SET); lockf (fd, F_ULOCK, 1): the process has called *)
(* unlock, and none of its handles holds the lock any more.                *)
avl_file_unlock(h) ==
  /\ IsOpen(h)
  /\ thread[h] = Idle
  /\ lock' = Unlock(lock, ProcOf(h), 1)
  /\ user' = { g \in user : ProcOf(g) # ProcOf(h) }
  /\ op' = Call("unlock", h, 0, Uninit)
  /\ UNCHANGED <<hdr, rec, handle, ret, out, emsg, order, iter, thread, nums, count>>

----------------------------------------------------------------------------
(* avl_file_squash *)

EmptyNodes(nk) == [k \in Keys(nk) |-> Node(TagEmpty, 0, 0)]

(* The first loop: current-pointer records of other processes that nobody  *)
(* holds locked go to the empty list.  sp is the last record kept.         *)
RECURSIVE SqReap(_, _, _, _, _, _, _, _)
SqReap(F, H, L, pid, nk, cp, sp, fuel) ==
  IF cp <= 0 THEN [ok |-> TRUE, F |-> F, H |-> H]
  ELSE IF fuel = 0 \/ cp \notin DOMAIN F \/ (sp > 0 /\ sp \notin DOMAIN F)
  THEN [ok |-> FALSE, F |-> F, H |-> H]
  ELSE LET cpr == F[cp] IN
       IF cpr.b.num # pid /\ ~LockedByOther(L, pid, cp)
       THEN LET F1 == IF sp > 0 THEN Wr(F, sp, [F[sp] EXCEPT !.next = cpr.next]) ELSE F
                H1 == IF sp > 0 THEN H ELSE [H EXCEPT !.head_cpr = cpr.next]
                ar == [cpr EXCEPT !.n = EmptyNodes(nk), !.next = H1.head_empty]
            IN SqReap(Wr(F1, cp, ar), [H1 EXCEPT !.head_empty = cp], L, pid, nk,
                      cpr.next, sp, fuel - 1)
       ELSE SqReap(F, H, L, pid, nk, cpr.next, cp, fuel - 1)

(* The scan of the empty list: b is the empty record with the lowest       *)
(* offset and a the one before it on the list, q the one with the highest  *)
(* offset and p the one before it.                                         *)
RECURSIVE SqScan(_, _, _, _)
SqScan(F, sp, s, fuel) ==
  IF sp <= 0 THEN s
  ELSE IF fuel = 0 \/ sp \notin DOMAIN F THEN [s EXCEPT !.ok = FALSE]
  ELSE LET spr == F[sp]
           s1  == IF sp <= s.b THEN [s EXCEPT !.b = sp, !.br = spr, !.a = s.y, !.ar = s.yr]
                  ELSE s
           s2  == IF sp >= s1.q THEN [s1 EXCEPT !.q = sp, !.qr = spr, !.p = s.y, !.pr = s.yr]
                  ELSE s1
       IN SqScan(F, spr.next, [s2 EXCEPT !.y = sp, !.yr = spr], fuel - 1)

(* ftruncate (fd, y): the last slot leaves the file. *)
Truncate(F, y) == [x \in DOMAIN F \ {y} |-> F[x]]

(* b taken off the empty list (a is the record before it, or 0). *)
SqTakeB(m, s) ==
  IF s.a > 0 THEN [m EXCEPT !.F = Wr(m.F, s.a, [s.ar EXCEPT !.next = s.br.next])]
  ELSE [m EXCEPT !.H = [m.H EXCEPT !.head_empty = s.br.next]]

(* The moved record's neighbours on the sequential list now point to b. *)
SqSeq(m, y, yr, b) ==
  LET z1 == yr.next
      z2 == yr.prev
  IN
  IF z1 > 0 /\ z1 \notin DOMAIN m.F THEN [m EXCEPT !.ok = FALSE]
  ELSE IF z1 > 0 /\ m.F[z1].prev # y
  THEN [m EXCEPT !.e = "63 bad sequential list pointer", !.brk = TRUE]
  ELSE
  LET F1 == IF z1 > 0 THEN Wr(m.F, z1, [m.F[z1] EXCEPT !.prev = b]) ELSE m.F IN
  IF z2 > 0 /\ z2 \notin DOMAIN F1 THEN [m EXCEPT !.ok = FALSE]
  ELSE IF z2 > 0 /\ F1[z2].next # y
  THEN [m EXCEPT !.F = F1, !.e = "64 bad sequential list pointer", !.brk = TRUE]
  ELSE IF z2 > 0 THEN [m EXCEPT !.F = Wr(F1, z2, [F1[z2] EXCEPT !.next = b])]
  ELSE [m EXCEPT !.F = F1, !.H = [m.H EXCEPT !.head_seq = b]]

(* SqThread that leaves the thread pointing to y. *)
SqThreadSame(m, k, yr, b, s) == m

(* A thread of tree k that pointed to y now points to b: the thread of the *)
(* last node of y's subtree on side s.                                     *)
SqThread(m, k, yr, b, s) ==
  LET o == Other(s) IN
  IF ~m.ok \/ yr.n[k][s] <= 0 THEN m
  ELSE LET e == IF s = "l" THEN Rightmost(m.F, k, yr.n[k].l, Fuel(m.F))
                ELSE Leftmost(m.F, k, yr.n[k].r, Fuel(m.F))
       IN IF ~e.ok THEN [m EXCEPT !.ok = FALSE]
          ELSE [m EXCEPT !.F = Wr(m.F, e.sp, SetN(m.F[e.sp], k, o, -b))]

(* The pointers of tree k to y, found by the path p, now point to b. *)
SqKeyAt(m, k, y, yr, b, p) ==
  IF ~p.ok THEN [m EXCEPT !.ok = FALSE]
  ELSE IF ~p.found THEN [m EXCEPT !.e = "65 not in the tree"]
  ELSE
  LET l  == p.l
      pr == p.par[l]
      m1 == IF l > 0
            THEN [m EXCEPT !.F = Wr(m.F, p.pa[l],
                                    IF pr.n[k].l = y THEN SetN(pr, k, "l", b)
                                    ELSE SetN(pr, k, "r", b))]
            ELSE [m EXCEPT !.H = [m.H EXCEPT !.root[k] = b]]
  IN SqThread(SqThread(m1, k, yr, b, "l"), k, yr, b, "r")

(* One pass of the loop over the keys: the pointers of tree k to y. *)
SqKey(m, nk, y, yr, b, k) ==
  IF ~m.ok THEN m
  ELSE SqKeyAt(m, k, y, yr, b, FindPath(m.F, k, yr.b, "path", nk, y, m.H.root[k]))

RECURSIVE SqKeys(_, _, _, _, _, _)
SqKeys(m, nk, y, yr, b, k) ==
  IF k >= nk THEN m ELSE SqKeys(SqKey(m, nk, y, yr, b, k), nk, y, yr, b, k + 1)

(* The current-pointer records whose left field points to y now point to  *)
(* b there, and nowhere else.                                              *)
SqAdvanceLeft(cpr, nk, y, b) ==
  [cpr EXCEPT !.n = [k \in Keys(nk) |->
                       [cpr.n[k] EXCEPT !.l = IF @ = y THEN b ELSE @]]]

(* The current-pointer records that point to y now point to b. *)
SqAdvance(cpr, nk, y, b) ==
  [cpr EXCEPT !.prev = IF @ = y THEN b ELSE @,
              !.n = [k \in Keys(nk) |->
                       [cpr.n[k] EXCEPT !.l = IF @ = y THEN b ELSE @,
                                        !.r = IF @ = y THEN b ELSE @]]]

RECURSIVE SqCursors(_, _, _, _, _, _)
SqCursors(F, nk, cp, y, b, fuel) ==
  IF cp <= 0 THEN [ok |-> TRUE, F |-> F]
  ELSE IF fuel = 0 \/ cp \notin DOMAIN F THEN [ok |-> FALSE, F |-> F]
  ELSE LET cpr == F[cp]
           c1  == SqAdvance(cpr, nk, y, b)
       IN SqCursors(IF c1 # cpr THEN Wr(F, cp, c1) ELSE F, nk, cpr.next, y, b, fuel - 1)

(* Whether y is met on the current-pointer list (n_keys = 0, where no      *)
(* balance byte tells what the last record is).                            *)
RECURSIVE SqOnCprList(_, _, _, _)
SqOnCprList(F, cp, y, fuel) ==
  IF cp <= 0 THEN [ok |-> TRUE, found |-> FALSE]
  ELSE IF fuel = 0 \/ cp \notin DOMAIN F THEN [ok |-> FALSE, found |-> FALSE]
  ELSE IF y = cp THEN [ok |-> TRUE, found |-> TRUE]
  ELSE SqOnCprList(F, F[cp].next, y, fuel - 1)

Abs(x) == IF x < 0 THEN -x ELSE x

(* The loop that eliminates the empty records.                             *)
(* st = [ok, F, H, L, cpr, e, brk, mv]: the file, the header, the locks,   *)
(* avl_fp->cpr, the message set, whether the loop was left by break, and   *)
(* the moves <<y, b>> of tree nodes made so far.  s is the scan of the     *)
(* empty list, y the last record of the file and yr what it holds.         *)

(* SqDropEmpty that leaves the file as long as it was. *)
SqDropEmptyKeep(st, s, y) ==
  LET F1 == IF s.p > 0 THEN Wr(st.F, s.p, [s.pr EXCEPT !.next = s.qr.next]) ELSE st.F
      H1 == IF s.p > 0 THEN st.H ELSE [st.H EXCEPT !.head_empty = s.qr.next]
  IN [st EXCEPT !.F = F1, !.H = H1]

(* The last record is an empty record. *)
SqDropEmpty(st, s, y) ==
  LET F1 == IF s.p > 0 THEN Wr(st.F, s.p, [s.pr EXCEPT !.next = s.qr.next]) ELSE st.F
      H1 == IF s.p > 0 THEN st.H ELSE [st.H EXCEPT !.head_empty = s.qr.next]
  IN [st EXCEPT !.F = Truncate(F1, y), !.H = H1]

(* The last record is the current-pointer record of this handle; u is the  *)
(* list without it.                                                        *)
SqMoveCpr(st, pid, s, y, yr, u) ==
  LET H1 == IF st.H.head_cpr = y THEN [st.H EXCEPT !.head_cpr = yr.next] ELSE st.H
      m2 == SqTakeB([F |-> u.F, H |-> H1], s)
  IN IF ~u.ok \/ LockedByOther(st.L, pid, s.b) THEN [st EXCEPT !.ok = FALSE]
     ELSE [st EXCEPT !.F = Truncate(Wr(m2.F, s.b, [yr EXCEPT !.next = m2.H.head_cpr]), y),
                     !.H = [m2.H EXCEPT !.head_cpr = s.b],
                     !.L = (@ \ {<<pid, y>>}) \cup {<<pid, s.b>>},
                     !.cpr = s.b]

(* The tree node is at b; the current pointers follow and the file ends    *)
(* before y.                                                               *)
SqFinish(st, y, b, m4, c) ==
  [st EXCEPT !.ok = m4.ok /\ c.ok, !.F = Truncate(c.F, y), !.H = m4.H, !.e = m4.e,
             !.mv = Append(@, <<y, b>>)]

SqTrees(st, nk, y, b, m4) ==
  SqFinish(st, y, b, m4, SqCursors(m4.F, nk, m4.H.head_cpr, y, b, Fuel(m4.F)))

SqLinked(st, nk, s, y, yr, m3) ==
  IF ~m3.ok \/ m3.brk
  THEN [st EXCEPT !.ok = m3.ok, !.F = m3.F, !.H = m3.H, !.e = m3.e, !.brk = m3.brk]
  ELSE SqTrees(st, nk, y, s.b, SqKeys(m3, nk, y, yr, s.b, 0))

(* SqPut that writes nothing at b. *)
SqPutNothing(m1, s, yr) == m1

(* The last record of the file is written at b. *)
SqPut(m1, s, yr) == [m1 EXCEPT !.F = Wr(m1.F, s.b, yr)]

(* The last record is not empty and not this handle's: a tree node, which  *)
(* moves to b, or a record that ends the loop.                             *)
SqMoveNode(st, nk, s, y, yr, c0) ==
  IF ~c0.ok THEN [st EXCEPT !.ok = FALSE]
  ELSE IF c0.found THEN [st EXCEPT !.brk = TRUE]
  ELSE IF nk > 0 /\ Abs(yr.n[0].b) > 1
  THEN [st EXCEPT !.brk = TRUE,
                  !.e = IF yr.n[0].b # TagCpr THEN "62 unknown last record" ELSE @]
  ELSE SqLinked(st, nk, s, y, yr,
                SqSeq(SqPut(SqTakeB([ok |-> TRUE, F |-> st.F, H |-> st.H, e |-> st.e,
                                     brk |-> FALSE], s), s, yr), y, yr, s.b))

(* SqStepAt that ends the loop at every last record that is not empty. *)
SqStepAtEmptyOnly(st, pid, nk, s, y) ==
  IF ~s.ok \/ y \notin DOMAIN st.F THEN [st EXCEPT !.ok = FALSE]
  ELSE IF y = s.q THEN SqDropEmpty(st, s, y)
  ELSE [st EXCEPT !.brk = TRUE]

SqStepAt(st, pid, nk, s, y) ==
  IF ~s.ok \/ y \notin DOMAIN st.F THEN [st EXCEPT !.ok = FALSE]
  ELSE IF y = s.q THEN SqDropEmpty(st, s, y)
  ELSE IF y = st.cpr
  THEN SqMoveCpr(st, pid, s, y, st.F[y],
                 IF st.H.head_cpr = y THEN [ok |-> TRUE, F |-> st.F]
                 ELSE CprUnlink(st.F, st.H.head_cpr, y, st.F[y].next, Fuel(st.F)))
  ELSE SqMoveNode(st, nk, s, y, st.F[y],
                  IF nk = 0 THEN SqOnCprList(st.F, st.H.head_cpr, y, Fuel(st.F))
                  ELSE [ok |-> TRUE, found |-> FALSE])

(* The scan of the empty list starts with a, b, p and q as the code's      *)
(* first pass leaves them.                                                 *)
SqScan0(H, U) ==
  [ok |-> TRUE, a |-> 0, ar |-> U, b |-> H.head_empty, br |-> U,
   p |-> 0, pr |-> U, q |-> H.head_empty, qr |-> U, y |-> 0, yr |-> U]

(* One pass of the loop. *)
SqStep(st, pid, nk) ==
  SqStepAt(st, pid, nk,
           SqScan(st.F, st.H.head_empty, SqScan0(st.H, UninitRec(nk)), Fuel(st.F)),
           FileEnd(st.H, st.F) - st.H.reclen)

(* The slots s after the moves mv, applied in turn. *)
RECURSIVE Moved(_, _)
Moved(s, mv) ==
  IF mv = <<>> THEN s
  ELSE Moved([i \in 1 .. Len(s) |-> IF s[i] = mv[1][1] THEN mv[1][2] ELSE s[i]], Tail(mv))

RECURSIVE SqLoop(_, _, _, _)
SqLoop(st, pid, nk, fuel) ==
  IF ~st.ok \/ st.brk \/ st.H.head_empty <= 0 THEN st
  ELSE IF fuel = 0 THEN [st EXCEPT !.ok = FALSE]
  ELSE SqLoop(SqStep(st, pid, nk), pid, nk, fuel - 1)

(* The loop, after the first loop r0 over the current-pointer list. *)
SqReaped(r0, L, pid, nk, cpr, fuel) ==
  SqLoop([ok |-> r0.ok, F |-> r0.F, H |-> r0.H, L |-> L, cpr |-> cpr, e |-> "",
          brk |-> FALSE, mv |-> <<>>], pid, nk, fuel)

(* The whole of avl_file_squash by process pid on header H and file F. *)
Squash(H, F, L, pid, nk, cpr) ==
  SqReaped(SqReap(F, H, L, pid, nk, H.head_cpr, 0, Fuel(F)), L, pid, nk, cpr, Fuel(F))

avl_file_squash(h) ==
  /\ IsOpen(h)
  /\ GateFree(h)
  /\ LET st == Squash(hdr, rec, lock, ProcOf(h), handle[h].n_keys, handle[h].cpr)
     IN /\ st.ok
        /\ rec' = st.F
        /\ hdr' = st.H
        /\ lock' = st.L
        /\ handle' = [handle EXCEPT ![h].cpr = st.cpr]
        /\ emsg' = IF st.e = "" THEN emsg ELSE st.e
        /\ order' = Moved(order, st.mv)
  /\ UNCHANGED <<thread, nums, user, count>>
  /\ op' = Call("squash", h, 0, Uninit)
  /\ iter' = NoIter
  /\ UNCHANGED <<ret, out>>

----------------------------------------------------------------------------
(* The structure of a file, read as the claims read it.  The walks are     *)
(* bounded so that they are defined on any file; cut is TRUE when a walk   *)
(* did not end (a cycle, or an offset outside the file).                   *)

(* In-order sequence of the subtree at p under key k, following positive   *)
(* child offsets only.                                                     *)
RECURSIVE InOrderAt(_, _, _, _)
InOrderAt(F, k, p, fuel) ==
  IF p <= 0 THEN <<>>
  ELSE IF fuel = 0 \/ p \notin DOMAIN F THEN <<-1>>
  ELSE InOrderAt(F, k, F[p].n[k].l, fuel - 1) \o <<p>> \o InOrderAt(F, k, F[p].n[k].r, fuel - 1)

InOrder(k) == InOrderAt(rec, k, hdr.root[k], Fuel(rec))

RECURSIVE HeightAt(_, _, _, _)
HeightAt(F, k, p, fuel) ==
  IF p <= 0 THEN 0
  ELSE IF fuel = 0 \/ p \notin DOMAIN F THEN 100
  ELSE LET hl == HeightAt(F, k, F[p].n[k].l, fuel - 1)
           hr == HeightAt(F, k, F[p].n[k].r, fuel - 1)
       IN 1 + (IF hl > hr THEN hl ELSE hr)

(* The list from p along the next field. *)
RECURSIVE ListAt(_, _, _)
ListAt(F, p, fuel) ==
  IF p <= 0 THEN <<>>
  ELSE IF fuel = 0 \/ p \notin DOMAIN F THEN <<-1>>
  ELSE <<p>> \o ListAt(F, F[p].next, fuel - 1)

SeqList == ListAt(rec, hdr.head_seq, Fuel(rec))
EmptyList == ListAt(rec, hdr.head_empty, Fuel(rec))
CprList == ListAt(rec, hdr.head_cpr, Fuel(rec))

Range(s) == { s[i] : i \in 1 .. Len(s) }
NoDup(s) == \A i, j \in 1 .. Len(s) : i # j => s[i] # s[j]

HasFile == hdr # NoHdr
KeySet == IF HasFile THEN Keys(hdr.n_keys) ELSE {}

Sorted(k) ==
  LET io == InOrder(k) IN
  \A i \in 1 .. Len(io) - 1 : cmp_test(k, rec[io[i]].b, rec[io[i + 1]].b) <= 0

Balanced(k) ==
  \A p \in Range(SeqList) :
     /\ rec[p].n[k].b \in {-1, 0, 1}
     /\ rec[p].n[k].b = HeightAt(rec, k, rec[p].n[k].l, Fuel(rec))
                        - HeightAt(rec, k, rec[p].n[k].r, Fuel(rec))

Threaded(k) ==
  LET io == InOrder(k) IN
  \A i \in 1 .. Len(io) :
     LET nd == rec[io[i]].n[k] IN
     /\ nd.l <= 0 => -nd.l = (IF i = 1 THEN 0 ELSE io[i - 1])
     /\ nd.r <= 0 => -nd.r = (IF i = Len(io) THEN 0 ELSE io[i + 1])

SameSet(k) ==
  /\ Range(InOrder(k)) = Range(SeqList)
  /\ Len(InOrder(k)) = hdr.n_avl
  /\ Len(SeqList) = hdr.n_avl

Partition ==
  LET all == SeqList \o CprList \o EmptyList IN
  /\ NoDup(all)
  /\ Range(all) = DOMAIN rec

SeqLinked ==
  \A i \in 1 .. Len(SeqList) :
     rec[SeqList[i]].prev = (IF i = 1 THEN 0 ELSE SeqList[i - 1])

----------------------------------------------------------------------------
(* Specifications. *)

NoCall == Call("none", 0, 0, Uninit)

Init ==
  /\ hdr = NoHdr
  /\ rec = <<>>
  /\ handle = [h \in Handles |-> NoHandle]
  /\ lock = {}
  /\ op = NoCall
  /\ ret = 0
  /\ out = Uninit
  /\ emsg = ""
  /\ order = <<>>
  /\ iter = NoIter
  /\ thread = [h \in Handles |-> Idle]
  /\ nums = <<>>
  /\ user = {}
  /\ count = 0

(* One opener and the life of a file: records come and go, the file is    *)
(* squashed, closed and opened again.                                      *)
Next ==
  \/ \E nk \in 0 .. MaxKeys : avl_file_open(1, DataLen, nk)
  \/ avl_file_close(1)
  \/ \E d \in TreePayloads : avl_file_insert(1, d, MaxRec)
  \/ \E d \in TreePayloads : avl_file_delete(1, d)
  \/ avl_file_squash(1)

Spec == Init /\ [][Next]_vars

(* One opener that inserts, deletes and updates records which may be equal *)
(* in one key and differ in another.                                       *)
NextUpd ==
  \/ \E nk \in 0 .. MaxKeys : avl_file_open(1, DataLen, nk)
  \/ \E d \in Payloads : avl_file_insert(1, d, MaxRecUpd)
  \/ \E d \in Payloads : avl_file_delete(1, d)
  \/ \E d \in Payloads : avl_file_update(1, d)

SpecUpd == Init /\ [][NextUpd]_vars

(* One opener that reads by key, forwards from a start record. *)
NextGe ==
  \/ \E nk \in 0 .. MaxKeys : avl_file_open(1, DataLen, nk)
  \/ \E d \in IterPayloads : avl_file_insert(1, d, MaxRecIter)
  \/ \E d \in Payloads, k \in Keys(MaxKeys) : avl_file_startge(1, d, k)
  \/ \E k \in Keys(MaxKeys) : avl_file_next(1, Uninit, k)

SpecGe == Init /\ [][NextGe]_vars

(* One opener that looks records up. *)
NextFind ==
  \/ \E nk \in 0 .. MaxKeys : avl_file_open(1, DataLen, nk)
  \/ \E d \in IterPayloads : avl_file_insert(1, d, MaxRecIter)
  \/ \E d \in Payloads, k \in Keys(MaxKeys) : avl_file_find(1, d, k)

SpecFind == Init /\ [][NextFind]_vars

(* One opener that reads by key, backwards from a start record. *)
NextLt ==
  \/ \E nk \in 0 .. MaxKeys : avl_file_open(1, DataLen, nk)
  \/ \E d \in IterPayloads : avl_file_insert(1, d, MaxRecIter)
  \/ \E d \in Payloads, k \in Keys(MaxKeys) : avl_file_startlt(1, d, k)
  \/ \E k \in Keys(MaxKeys) : avl_file_prev(1, Uninit, k)

SpecLt == Init /\ [][NextLt]_vars

(* One opener that reads sequentially. *)
NextSeq ==
  \/ \E nk \in 0 .. MaxKeys : avl_file_open(1, DataLen, nk)
  \/ \E d \in TreePayloads : avl_file_insert(1, d, MaxRecSeq)
  \/ \E d \in TreePayloads : avl_file_delete(1, d)
  \/ avl_file_squash(1)
  \/ avl_file_startseq(1)
  \/ avl_file_readseq(1, Uninit)

SpecSeq == Init /\ [][NextSeq]_vars

(* Three openers in two processes: handles 1 and 2 belong to one process,  *)
(* handle 3 to another; they come and go while records are inserted and    *)
(* the file is squashed.  The file is followed as long as its slots are    *)
(* well linked: on a file whose lists are broken the calls walk garbage    *)
(* and the counters of the header drift without bound.                     *)
WellLinked == HasFile => Partition

NextMulti ==
  \/ \E h \in Handles : WellLinked /\ avl_file_open(h, DataLen, 1)
  \/ \E h \in Handles : WellLinked /\ avl_file_close(h)
  \/ \E h \in Handles : WellLinked /\ avl_file_insert(h, R(1, 2, 0, 0), MaxRecMulti)
  \/ \E h \in Handles : WellLinked /\ avl_file_squash(h)

SpecMulti == Init /\ [][NextMulti]_vars

(* Two openers in two processes: handle 1 fills the file, handle 3 opens   *)
(* it and reads it sequentially while handle 1 deletes, so that records    *)
(* are deleted in the middle of a pass.                                    *)
Both == {1, 3}

NextPass ==
  \/ avl_file_open(1, DataLen, 1)
  \/ IsOpen(1) /\ avl_file_open(3, DataLen, 1)
  \/ \E d \in TreePayloads : ~IsOpen(3) /\ avl_file_insert(1, d, MaxRecPass)
  \/ \E d \in TreePayloads : avl_file_delete(1, d)
  \/ avl_file_startseq(3)
  \/ avl_file_readseq(3, Uninit)

SpecPass == Init /\ [][NextPass]_vars

(* Two openers in two processes that come and go, insert, delete and       *)
(* squash.                                                                 *)
NextShare ==
  \/ \E h \in Both : avl_file_open(h, DataLen, 1)
  \/ \E h \in Both : avl_file_close(h)
  \/ \E h \in Both : avl_file_insert(h, R(1, 2, 0, 0), MaxRecShare)
  \/ \E h \in Both : avl_file_delete(h, R(1, 2, 0, 0))
  \/ \E h \in Both : avl_file_squash(h)

SpecShare == Init /\ [][NextShare]_vars

(* Two threads of one process with a handle each (1 and 2) and another    *)
(* process (3) open and close the file and draw numbers from it.           *)
NextGate ==
  \/ \E h \in Handles : Cardinality(DOMAIN rec) < MaxSlots /\ avl_file_open(h, DataLen, 1)
  \/ \E h \in Handles : avl_file_close(h)
  \/ \E h \in Handles : getnum_lock(h)
  \/ \E h \in Handles : getnum_read(h)
  \/ \E h \in Handles : getnum_write(h)
  \/ \E h \in Handles : getnum_unlock(h)

SpecGate == Init /\ [][NextGate]_vars

(* The same handles open and close the file, lock it and unlock it.        *)
NextUser ==
  \/ \E h \in Handles : avl_file_open(h, DataLen, 1)
  \/ \E h \in Handles : avl_file_close(h)
  \/ \E h \in Handles : avl_file_lock(h)
  \/ \E h \in Handles : avl_file_unlock(h)

SpecUser == Init /\ [][NextUser]_vars

----------------------------------------------------------------------------

(* Claims. *)

Live == Range(SeqList)

Min(S) == CHOOSE x \in S : \A y \in S : x <= y
Max(S) == CHOOSE x \in S : \A y \in S : x >= y

(* The place of x in s, or 0. *)
Idx(s, x) ==
  LET c == { i \in 1 .. Len(s) : s[i] = x } IN IF c = {} THEN 0 ELSE Min(c)

(* The walks of the lists and of tree k ended, inside the file. *)
Walkable(k) == Range(InOrder(k)) \subseteq DOMAIN rec /\ Live \subseteq DOMAIN rec

(* C1: after every completed insert, delete or squash, for every key k and *)
(* every live record, the stored balance under k is -1, 0 or +1 and is the *)
(* height of the left subtree less the height of the right subtree, where  *)
(* only positive child offsets are children.                               *)
BalanceInvariant ==
  HasFile => \A k \in KeySet : Walkable(k) /\ Balanced(k)

(* A delete took a record out of two trees of four, and the root of one is *)
(* not the root of the other.                                              *)
BalanceWitness ==
  /\ op.name = "delete" /\ ret = 0
  /\ HasFile /\ hdr.n_keys = 2 /\ hdr.n_avl = 3
  /\ hdr.root[0] # hdr.root[1]

(* C1, with several handles: the same after every completed insert, delete *)
(* or squash of any of the handles of two processes, one of them holding   *)
(* two handles.                                                            *)
BalanceAnyHandle ==
  op.name \in {"insert", "delete", "squash"} => BalanceInvariant

(* C4: after every completed operation, for every key k the records        *)
(* reachable from root[k] through positive child offsets are the records   *)
(* on the head_seq list, and each of the two counts n_avl records.         *)
LiveSetsAgree ==
  HasFile =>
    /\ NoDup(SeqList)
    /\ \A k \in KeySet : Walkable(k) /\ NoDup(InOrder(k)) /\ SameSet(k)

(* The file was squashed with records in it, under two keys. *)
LiveSetsWitness ==
  /\ op.name = "squash"
  /\ HasFile /\ hdr.n_keys = 2 /\ hdr.n_avl = 3 /\ Len(SeqList) = 3
  /\ EmptyList = <<>>

(* C4, with several handles: the same after every completed operation of  *)
(* any of the handles of two processes, one of them holding two handles.   *)
LiveSetsAnyHandle ==
  op.name \in {"open", "close", "insert", "delete", "squash"} => LiveSetsAgree

(* C5: after every completed insert, delete or squash, for every key k a   *)
(* live record with no left child holds in its left field the negated      *)
(* offset of the record before it in key order (0 for the first), and one  *)
(* with no right child the negated offset of the record after it (0 for    *)
(* the last).                                                              *)
ThreadInvariant ==
  HasFile => \A k \in KeySet : Walkable(k) /\ Threaded(k)

(* An insert made a tree of four, with a record threaded on both sides to  *)
(* records that are there.                                                 *)
ThreadWitness ==
  /\ op.name = "insert" /\ ret = 0
  /\ HasFile /\ hdr.n_keys = 2 /\ hdr.n_avl = 4
  /\ \E p \in Live : rec[p].n[1].l < 0 /\ rec[p].n[1].r < 0

(* C5, with several handles: the same after every completed insert, delete *)
(* or squash of any of the handles of two processes, one of them holding   *)
(* two handles.                                                            *)
ThreadAnyHandle ==
  op.name \in {"insert", "delete", "squash"} => ThreadInvariant

(* C6: after every completed open, close, insert, delete or squash, the    *)
(* slots on the head_seq, head_cpr and head_empty lists are disjoint, each *)
(* slot is on its list once, and together they are all the slots of the    *)
(* file.                                                                   *)
SlotPartition ==
  HasFile =>
    LET all == SeqList \o CprList \o EmptyList IN
    NoDup(all) /\ Range(all) = DOMAIN rec

(* The live records whose payload is b, byte for byte. *)
SameBytes(b) == { p \in Live : rec[p].b = b }

(* C7: delete(buf) returns 0 if and only if some live record has a payload *)
(* bytewise equal to buf; then one such record leaves every tree and the   *)
(* sequential list, and every other live record stays in every tree and on *)
(* the list with its payload; when no record matches it returns -1 and the *)
(* header and the records are unchanged.                                   *)
DeleteExact ==
  [][op'.name = "delete" =>
       /\ ret' \in {0, -1}
       /\ ret' = 0 <=> SameBytes(op'.data) # {}
       /\ ret' = 0 =>
            \E y \in SameBytes(op'.data) :
               /\ Live' = Live \ {y}
               /\ Len(SeqList') = Cardinality(Live')
               /\ \A k \in KeySet : /\ Range(InOrder(k)') = Live'
                                    /\ Len(InOrder(k)') = Cardinality(Live')
               /\ \A p \in Live' : rec'[p].b = rec[p].b
       /\ ret' = -1 => hdr' = hdr /\ rec' = rec]_vars

(* A record was deleted while another one with the same keys and other     *)
(* data was live.                                                          *)
DeleteExactWitness ==
  /\ op.name = "delete" /\ ret = 0 /\ op.data = R(2, 1, 0, 0)
  /\ HasFile /\ hdr.n_keys = 2
  /\ \E p \in Live : rec[p].b = R(2, 1, 0, 1)

(* The live records equal to b under every key of the file. *)
KeysEqual(b) == { p \in Live : AllKeysEqual(hdr.n_keys, b, rec[p].b) }

(* An update step that returns 0 exactly when hit is not empty, then       *)
(* replaces the payload of one record of hit and nothing else, and         *)
(* otherwise returns -1 and changes nothing.                               *)
UpdateStep(hit) ==
  /\ ret' \in {0, -1}
  /\ ret' = 0 <=> hit # {}
  /\ ret' = 0 => \E y \in hit : rec' = [rec EXCEPT ![y].b = op'.data]
  /\ ret' = -1 => rec' = rec
  /\ hdr' = hdr /\ handle' = handle

(* C9, as stated: update(buf) returns 0 if and only if some live record    *)
(* compares equal to buf under every key; then the payload of one such     *)
(* record is replaced by buf and nothing else changes; otherwise it        *)
(* returns -1 and the file is unchanged.                                   *)
UpdateAllKeys ==
  [][op'.name = "update" => UpdateStep(KeysEqual(op'.data))]_vars

(* C9, amended: the same for a file with at least one key; on a file with  *)
(* no key update returns -1 and leaves the file unchanged, whatever        *)
(* records are live.                                                       *)
UpdateKeyed ==
  [][op'.name = "update" =>
       UpdateStep(IF hdr.n_keys > 0 THEN KeysEqual(op'.data) ELSE {})]_vars

(* An update replaced one of two live records that were equal in both      *)
(* keys.                                                                   *)
UpdateWitness ==
  /\ op.name = "update" /\ ret = 0 /\ op.data = R(2, 1, 0, 1)
  /\ HasFile /\ hdr.n_keys = 2
  /\ \E p, q \in Live : rec[p].b = R(2, 1, 0, 1) /\ rec[q].b = R(2, 1, 0, 0)

(* The places in the order of key k of the records not less than b. *)
NotLess(k, b) ==
  LET io == InOrder(k) IN { i \in 1 .. Len(io) : cmp_test(k, rec[io[i]].b, b) >= 0 }

(* The records read are in key order, from the first to the last. *)
Ascending(k, s) ==
  \A i, j \in 1 .. Len(s) : i < j => cmp_test(k, rec[s[i]].b, rec[s[j]].b) <= 0

(* C2: for a key k within bounds, startge(probe, k) returns 0 with the     *)
(* first record in the order of key k that is not less than probe, and -1  *)
(* if and only if there is none; the next(k) calls that follow return the  *)
(* records after it in that order, each once, in non-decreasing key order, *)
(* and then -1.                                                            *)
StartGeNext ==
  /\ op.name = "startge" /\ op.k \in KeySet =>
       LET io == InOrder(op.k)
           c  == NotLess(op.k, op.data)
       IN /\ iter.kind = "ge" /\ iter.k = op.k /\ iter.got = <<>> /\ ~iter.end
          /\ IF c = {} THEN ret = -1 /\ iter.at = 0
             ELSE ret = 0 /\ iter.at = io[Min(c)] /\ out = rec[iter.at].b
  /\ iter.kind = "ge" =>
       LET io == InOrder(iter.k)
           i0 == Idx(io, iter.at)
           n  == Len(iter.got)
       IN /\ iter.at = 0 => n = 0
          /\ iter.at # 0 =>
               /\ i0 > 0 /\ i0 + n <= Len(io)
               /\ iter.got = SubSeq(io, i0 + 1, i0 + n)
               /\ iter.end => i0 + n = Len(io)
               /\ Ascending(iter.k, <<iter.at>> \o iter.got)
          /\ op.name = "next" /\ op.k = iter.k =>
               IF iter.end THEN ret = -1
               ELSE ret = 0 /\ n > 0 /\ out = rec[iter.got[n]].b

(* startge stopped at a record that is not the first of key 1, and next    *)
(* read the two records after it and then the end.                         *)
StartGeNextWitness ==
  /\ iter.kind = "ge" /\ iter.k = 1 /\ iter.end /\ Len(iter.got) = 2
  /\ op.name = "next" /\ ret = -1
  /\ Idx(InOrder(1), iter.at) = 2

(* The places in the order of key k of the records equal to b under k. *)
EqualAt(k, b) ==
  LET io == InOrder(k) IN { i \in 1 .. Len(io) : cmp_test(k, rec[io[i]].b, b) = 0 }

(* C8: for a key k within bounds, find(buf, k) returns 0 if and only if    *)
(* some live record compares equal to buf under key k, and the record      *)
(* copied into buf is then the first such record in the order of key k;    *)
(* otherwise it returns -1.                                                *)
FindFirst ==
  op.name = "find" /\ op.k \in KeySet =>
    LET io == InOrder(op.k)
        c  == EqualAt(op.k, op.data)
    IN IF c = {} THEN ret = -1
       ELSE ret = 0 /\ out = rec[io[Min(c)]].b

(* find by key 0 met two live records equal to the buffer under key 0 and  *)
(* different in the object, and handed back another record than the        *)
(* buffer held.                                                            *)
FindFirstWitness ==
  /\ op.name = "find" /\ op.k = 0 /\ ret = 0 /\ out # op.data
  /\ HasFile /\ hdr.n_keys = 2
  /\ \E p, q \in Live : /\ rec[p].b.num = op.data.num /\ rec[q].b.num = op.data.num
                        /\ rec[p].b.object # rec[q].b.object

(* The places in the order of key k of the records less than b. *)
Less(k, b) ==
  LET io == InOrder(k) IN { i \in 1 .. Len(io) : cmp_test(k, rec[io[i]].b, b) < 0 }

(* The records read are in key order, from the last to the first. *)
Descending(k, s) ==
  \A i, j \in 1 .. Len(s) : i < j => cmp_test(k, rec[s[i]].b, rec[s[j]].b) >= 0

(* C3: for a key k within bounds, startlt(probe, k) returns 0 with the     *)
(* last record in the order of key k that is less than probe, and -1 if    *)
(* and only if there is none; the prev(k) calls that follow return the     *)
(* records before it in that order, each once, in non-increasing key       *)
(* order, and then -1.                                                     *)
StartLtPrev ==
  /\ op.name = "startlt" /\ op.k \in KeySet =>
       LET io == InOrder(op.k)
           c  == Less(op.k, op.data)
       IN /\ iter.kind = "lt" /\ iter.k = op.k /\ iter.got = <<>> /\ ~iter.end
          /\ IF c = {} THEN ret = -1 /\ iter.at = 0
             ELSE ret = 0 /\ iter.at = io[Max(c)] /\ out = rec[iter.at].b
  /\ iter.kind = "lt" =>
       LET io == InOrder(iter.k)
           i0 == Idx(io, iter.at)
           n  == Len(iter.got)
       IN /\ iter.at = 0 => n = 0
          /\ iter.at # 0 =>
               /\ i0 > n
               /\ \A j \in 1 .. n : iter.got[j] = io[i0 - j]
               /\ iter.end => i0 - n = 1
               /\ Descending(iter.k, <<iter.at>> \o iter.got)
          /\ op.name = "prev" /\ op.k = iter.k =>
               IF iter.end THEN ret = -1
               ELSE ret = 0 /\ n > 0 /\ out = rec[iter.got[n]].b

(* startlt stopped at a record that is not the last of key 1, and prev     *)
(* read the two records before it and then the end.                        *)
StartLtPrevWitness ==
  /\ iter.kind = "lt" /\ iter.k = 1 /\ iter.end /\ Len(iter.got) = 2
  /\ op.name = "prev" /\ ret = -1
  /\ Idx(InOrder(1), iter.at) = 3 /\ Len(InOrder(1)) = 4

(* C10: the sequential list is the live records, the one inserted last     *)
(* first, so that head_seq is the record inserted last among the live      *)
(* ones; on a handle, startseq and the readseq calls that follow return    *)
(* every live record once, the one inserted last first, and then -1.       *)
SeqNewestFirst ==
  /\ HasFile => SeqList = order
  /\ HasFile => hdr.head_seq = (IF order = <<>> THEN 0 ELSE order[1])
  /\ iter.kind = "seq" =>
       LET n == Len(iter.got) IN
       /\ n <= Len(order)
       /\ iter.got = SubSeq(order, 1, n)
       /\ iter.end => n = Len(order)
       /\ op.name = "readseq" =>
            IF iter.end THEN ret = -1
            ELSE ret = 0 /\ n > 0 /\ out = rec[iter.got[n]].b

(* readseq read three records and then the end, and the one inserted last  *)
(* is in a slot before the others: a slot that a delete had freed.         *)
SeqNewestFirstWitness ==
  /\ iter.kind = "seq" /\ iter.end /\ Len(iter.got) = 3
  /\ op.name = "readseq" /\ ret = -1
  /\ iter.got[1] < iter.got[2]

(* The live records, the one inserted last first, that the pass has not    *)
(* returned.                                                               *)
NotRead == SelectSeq(order, LAMBDA x : x \notin Range(iter.got))

(* C11: while a handle is in a startseq/readseq pass and another handle    *)
(* deletes records the pass has not returned, every readseq of the pass    *)
(* returns: it returns the record inserted last among the live records     *)
(* not yet returned, which is never a deleted record nor one returned      *)
(* before, and -1 when there is none.                                      *)
PassSkipsDeleted ==
  /\ [](\A h \in Both : IsOpen(h) => ReadSeq(rec, handle[h].cpr, Uninit).ok)
  /\ [][op'.name = "readseq" /\ iter.kind = "seq" /\ iter.h = op'.h =>
          IF NotRead = <<>> THEN ret' = -1 /\ iter'.got = iter.got /\ iter'.end
          ELSE /\ ret' = 0
               /\ iter'.got = Append(iter.got, NotRead[1])
               /\ out' = rec[NotRead[1]].b
               /\ NotRead[1] \notin Range(iter.del)]_vars

(* The pass of one handle returned a record, the other handle deleted one  *)
(* that the pass had not returned, and the pass returned the third record  *)
(* and then the end.                                                       *)
PassSkipsDeletedWitness ==
  /\ iter.kind = "seq" /\ iter.h = 3 /\ iter.end
  /\ Len(iter.got) = 2 /\ Len(iter.del) = 1 /\ iter.del[1] \notin Range(iter.got)
  /\ op.name = "readseq" /\ op.h = 3 /\ ret = -1
  /\ hdr.head_empty = iter.del[1]

(* The payloads of the records at the slots s of file F. *)
Bytes(F, s) == [i \in 1 .. Len(s) |-> F[s[i]].b]

(* C12: squash keeps the number of live records, for every key the         *)
(* payloads of tree k in key order, and the payloads of the sequential     *)
(* list in its order; the descent of startge for the payload of any record *)
(* that was live ends at a record equal to it under the key.               *)
SquashKeeps ==
  [][op'.name = "squash" =>
       /\ hdr'.n_avl = hdr.n_avl
       /\ Range(SeqList') \subseteq DOMAIN rec'
       /\ Bytes(rec', SeqList') = Bytes(rec, SeqList)
       /\ \A k \in KeySet :
            /\ Range(InOrder(k)') \subseteq DOMAIN rec'
            /\ Bytes(rec', InOrder(k)') = Bytes(rec, InOrder(k))
            /\ \A p \in Live :
                 LET g == GeDescend(rec', k, rec[p].b, hdr'.root[k], Fuel(rec')) IN
                 g.ok /\ g.a \in DOMAIN rec' /\ cmp_test(k, rec'[g.a].b, rec[p].b) = 0]_vars

(* A squash left three records under two keys in a file without empty      *)
(* records, the record inserted last in a slot before the one inserted     *)
(* first: the slot a delete had freed.                                     *)
SquashKeepsWitness ==
  /\ op.name = "squash"
  /\ HasFile /\ hdr.n_keys = 2 /\ hdr.n_avl = 3 /\ Len(SeqList) = 3 /\ EmptyList = <<>>
  /\ SeqList[1] < SeqList[3]
  /\ hdr.root[0] # hdr.root[1]

(* The last slot of the file. *)
LastSlot == FileEnd(hdr, rec) - hdr.reclen

(* The length of a file of n slots. *)
LengthOf(n) == HdrSize(hdr.n_keys) + n * hdr.reclen

(* C13, as stated: after squash returns, the length of the file is the     *)
(* size of the header and one record length for each live record,          *)
(* possibly with one more record length for a trailing cursor slot.        *)
SquashLength ==
  op.name = "squash" =>
    FileEnd(hdr, rec) \in { LengthOf(hdr.n_avl), LengthOf(hdr.n_avl + 1) }

(* C13, amended: after squash returns, the file holds the header, the live *)
(* records, one cursor slot for each handle on the cursor list, and no     *)
(* empty slot unless the last slot of the file is the cursor slot of       *)
(* another handle, where the compaction stops; when the caller's is the    *)
(* only cursor slot the length is the header and one record length for     *)
(* each live record and for the cursor slot.                               *)
SquashLengthCursors ==
  op.name = "squash" =>
    /\ FileEnd(hdr, rec) = LengthOf(hdr.n_avl + Len(CprList) + Len(EmptyList))
    /\ handle[op.h].cpr \in Range(CprList)
    /\ EmptyList # <<>> => LastSlot \in Range(CprList) \ {handle[op.h].cpr}
    /\ Len(CprList) = 1 => FileEnd(hdr, rec) = LengthOf(hdr.n_avl + 1)

(* A squash with two handles open left two cursor slots and an empty slot  *)
(* between them, and a live record.                                        *)
SquashLengthWitness ==
  /\ op.name = "squash"
  /\ Len(CprList) = 2 /\ Len(EmptyList) = 1 /\ hdr.n_avl = 1
  /\ FileEnd(hdr, rec) = LengthOf(4)

(* C14: avl_file_getnum returns nextnum + 1 and stores it: the calls made  *)
(* on one file, through any handles in any interleaving and across close   *)
(* and open, return 1, 2, 3, ... in turn, so no two calls return the same  *)
(* value.                                                                  *)
GetnumConsecutive ==
  \A i \in 1 .. Len(nums) : nums[i] = i

(* The handle is between its lockf (F_LOCK) of byte 0 and its lockf        *)
(* (F_ULOCK) of it.                                                        *)
Inside(h) == thread[h].at \in {"locked", "read", "written"}

(* C15: calls through different handles are serialised by the lock of byte *)
(* 0: no two handles are at once between taking the lock and releasing it, *)
(* whether they are handles of different processes or of threads of one    *)
(* process.                                                                *)
GateExclusive ==
  \A a, b \in Handles : Inside(a) /\ Inside(b) => a = b

(* C16: the lock of byte 1 is apart from the lock of byte 0, and a call of *)
(* avl_file_lock by a second process returns only after the holder has     *)
(* called avl_file_unlock: the handles whose lock call has returned, with  *)
(* no unlock of their process and no close of the handle since, are of one *)
(* process, and no lock or unlock call changes who holds byte 0.           *)
UserLockExclusive ==
  /\ \A a, b \in user : ProcOf(a) = ProcOf(b)
  /\ op.name \in {"lock", "unlock"} => \A e \in lock : e[2] # 0

(* C21: when every record that was inserted has been deleted again, in any *)
(* order, n_avl is 0, head_seq is 0 and root[k] is 0 for every key k; a    *)
(* squash by the only open handle then leaves a file of one slot after the *)
(* header, the cursor slot of that handle.                                 *)
AllDeleted ==
  HasFile /\ order = <<>> =>
    /\ hdr.n_avl = 0
    /\ hdr.head_seq = 0
    /\ \A k \in KeySet : hdr.root[k] = 0
    /\ op.name = "squash" =>
         /\ FileEnd(hdr, rec) = HdrSize(hdr.n_keys) + hdr.reclen
         /\ DOMAIN rec = {handle[op.h].cpr}
         /\ CprList = <<handle[op.h].cpr>>

(* The last of four records of a file with two keys was deleted: their     *)
(* four slots are on the empty list.                                       *)
AllDeletedWitness ==
  /\ op.name = "delete" /\ ret = 0
  /\ HasFile /\ hdr.n_keys = 2 /\ order = <<>>
  /\ Len(EmptyList) = MaxRec

(* Records with keys all different, in opposite order by the two keys. *)
ScanPayloads ==
  { R(i, MaxRecScan + 1 - i, 0, 0) : i \in 1 .. MaxRecScan }

(* One opener inserts records of different keys in any order, deletes      *)
(* them, and scans the trees, also with a key the file does not have.      *)
NextScan ==
  \/ avl_file_open(1, DataLen, 2)
  \/ \E d \in ScanPayloads :
        IsOpen(1) /\ (\A p \in Live : rec[p].b # d) /\ avl_file_insert(1, d, MaxRecScan)
  \/ \E d \in ScanPayloads : avl_file_delete(1, d)
  \/ \E k \in -1 .. 2 : avl_file_scan(1, k, 0)

SpecScan == Init /\ [][NextScan]_vars

(* C22: avl_file_scan (k, 0, &count) with count 0 before the call returns  *)
(* the height of the tree of key k (0 for an empty tree) and leaves in     *)
(* count the number of records of the tree, which is n_avl; the scan       *)
(* changes nothing in the file.                                            *)
ScanCounts ==
  [][op'.name = "scan" /\ op'.k \in KeySet =>
       /\ ret' = HeightAt(rec, op'.k, hdr.root[op'.k], Fuel(rec))
       /\ count' = Len(InOrder(op'.k))
       /\ count' = hdr.n_avl
       /\ hdr' = hdr /\ rec' = rec]_vars

(* A scan by key 1 of a tree of three records, two levels high. *)
ScanCountsWitness ==
  /\ op.name = "scan" /\ op.k = 1
  /\ ret = 2 /\ count = 3 /\ hdr.n_avl = 3

(* Records of one key, all different. *)
TallPayloads ==
  { R(i, 0, 0, 0) : i \in 1 .. MaxRecTall }

(* One opener fills a file of one key with records of different keys in    *)
(* any order and scans the tree.                                           *)
NextTall ==
  \/ avl_file_open(1, DataLen, 1)
  \/ \E d \in TallPayloads :
        IsOpen(1) /\ (\A p \in Live : rec[p].b # d) /\ avl_file_insert(1, d, MaxRecTall)
  \/ avl_file_scan(1, 0, 0)

SpecTall == Init /\ [][NextTall]_vars

(* 2 to the power n. *)
RECURSIVE Pow2(_)
Pow2(n) == IF n <= 0 THEN 1 ELSE 2 * Pow2(n - 1)

(* The least N with h <= 1.4405 * log2 (N + 2), for h = 1 .. 5: N + 2 is   *)
(* the least whole number not below 2^(h / 1.4405), which is 1.618, 2.618, *)
(* 4.236, 6.854 and 11.09.                                                 *)
LeastLive == <<0, 1, 3, 5, 10>>

(* C23: in every state with N live records, the height h that scan returns *)
(* for a key is between ceil (log2 (N + 1)) and 1.4405 * log2 (N + 2).     *)
HeightBounds ==
  op.name = "scan" /\ op.k \in KeySet =>
    /\ count = hdr.n_avl
    /\ Pow2(ret) >= hdr.n_avl + 1
    /\ ret \in 0 .. 5
    /\ ret > 0 => hdr.n_avl >= LeastLive[ret]

(* A scan of a tree of seven records that is four levels high, the most    *)
(* that seven records allow.                                               *)
HeightBoundsWitness ==
  /\ op.name = "scan" /\ op.k = 0 /\ hdr.n_avl = 7 /\ ret = 4

(* A file brought from elsewhere: a header of one key with no slot after   *)
(* it, whose n_avl is INT64_MAX.                                           *)
InitFull ==
  /\ hdr = [NewHdr(1, DataLen) EXCEPT !.n_avl = Int64Max]
  /\ rec = <<>>
  /\ handle = [h \in Handles |-> NoHandle]
  /\ lock = {}
  /\ op = NoCall
  /\ ret = 0
  /\ out = Uninit
  /\ emsg = ""
  /\ order = <<>>
  /\ iter = NoIter
  /\ thread = [h \in Handles |-> Idle]
  /\ nums = <<>>
  /\ user = {}
  /\ count = 0

(* Two processes open the file, insert into it and delete from it. *)
NextFull ==
  \/ \E h \in Both : avl_file_open(h, DataLen, 1)
  \/ \E h \in Both : avl_file_close(h)
  \/ \E h \in Both, d \in TreePayloads :
        Cardinality(DOMAIN rec) < MaxSlotsFull /\ avl_file_insert(h, d, Int64Max + 1)
  \/ \E h \in Both, d \in TreePayloads : avl_file_delete(h, d)

SpecFull == InitFull /\ [][NextFull]_vars

NextCur ==
  \/ avl_file_open(1, DataLen, 1)
  \/ IsOpen(1) /\ avl_file_open(3, DataLen, 1)
  \/ \E d \in IterPayloads :
        /\ IsOpen(1) /\ ~IsOpen(3) /\ \A p \in Live : rec[p].b # d
        /\ avl_file_insert(1, d, MaxRecCur)
  \/ \E h \in Both, d \in IterPayloads : IsOpen(3) /\ avl_file_delete(h, d)
  \/ avl_file_startge(3, R(1, 1, 0, 0), 0)
  \/ avl_file_next(3, Uninit, 0)
  \/ avl_file_prev(3, Uninit, 0)
  \/ avl_file_startseq(3)
  \/ avl_file_readseq(3, Uninit)

SpecCur == Init /\ [][NextCur]_vars

(* The record before (d = -1) or after (d = 1) y in the order of key k, or *)
(* 0 when y is the first or the last.                                      *)
Beside(k, y, d) ==
  LET s == InOrder(k)
      i == Idx(s, y) + d
  IN IF i \in 1 .. Len(s) THEN s[i] ELSE 0

(* What a field of a current-pointer record that held v holds after the    *)
(* delete of y, to being the neighbour of y on that side.                  *)
Repointed(v, y, to) == IF v = y THEN to ELSE v

(* C25: after the delete of record y through any handle, no record of the  *)
(* head_cpr list points to y: a left field of key k that was y is the      *)
(* record before y in the order of k, a right field that was y is the      *)
(* record after y, a sequential pointer that was y is y's next; the fields *)
(* that were not y are as they were.                                       *)
DeleteRepoints ==
  [][op'.name = "delete" /\ ret' = 0 =>
       \E y \in Live \ Live' :
         /\ CprList' = CprList
         /\ \A c \in Range(CprList) :
              /\ rec'[c].prev = Repointed(rec[c].prev, y, rec[y].next)
              /\ rec'[c].prev # y
              /\ \A k \in KeySet :
                   /\ rec'[c].n[k].l = Repointed(rec[c].n[k].l, y, Beside(k, y, -1))
                   /\ rec'[c].n[k].r = Repointed(rec[c].n[k].r, y, Beside(k, y, 1))
                   /\ rec'[c].n[k].l # y /\ rec'[c].n[k].r # y]_vars

(* The file held the records of keys 1, 2 and 2, inserted in that order;   *)
(* the reader started at the first, so that its right field was at the     *)
(* second; the other process deleted the second, and the right field is at *)
(* the third.                                                              *)
DeleteRepointsWitness ==
  /\ op.name = "delete" /\ ret = 0 /\ op.h = 1 /\ op.data = R(2, 1, 0, 0)
  /\ iter.kind = "ge" /\ iter.h = 3 /\ iter.got = <<>> /\ Len(iter.del) = 1
  /\ hdr.n_avl = 2 /\ iter.at \in Live /\ rec[iter.at].b = R(1, 2, 0, 0)
  /\ LET c == rec[handle[3].cpr].n[0].r IN
       c \in Live /\ rec[c].b = R(2, 2, 0, 0) /\ iter.del[1] < c

(* The squash of handle h as it enters its loop over the empty records.    *)
SqEnter(h) ==
  LET r0 == SqReap(rec, hdr, lock, ProcOf(h), handle[h].n_keys, hdr.head_cpr, 0, Fuel(rec))
  IN [ok |-> r0.ok, F |-> r0.F, H |-> r0.H, L |-> lock, cpr |-> handle[h].cpr,
      e |-> "", brk |-> FALSE, mv |-> <<>>]

(* From st on, every pass of the loop that does not leave it by break ends *)
(* with the file one slot shorter, and the loop comes to its end.          *)
RECURSIVE SqShrinks(_, _, _, _)
SqShrinks(st, pid, nk, fuel) ==
  IF ~st.ok THEN FALSE
  ELSE IF st.brk \/ st.H.head_empty <= 0 THEN TRUE
  ELSE IF fuel = 0 THEN FALSE
  ELSE LET n == SqStep(st, pid, nk) IN
       /\ n.ok
       /\ ~n.brk => Cardinality(DOMAIN n.F) = Cardinality(DOMAIN st.F) - 1
       /\ SqShrinks(n, pid, nk, fuel - 1)

(* C26: squash always terminates; when it returns with no diagnostic,      *)
(* head_empty is 0 or the last slot of the file is a current-pointer       *)
(* record of another handle; and every pass of its loop that does not stop *)
(* the loop shortens the file by one slot.                                 *)
SquashEnds ==
  /\ [](\A h \in Both : IsOpen(h) =>
          SqShrinks(SqEnter(h), ProcOf(h), handle[h].n_keys, Fuel(rec)))
  /\ [][op'.name = "squash" /\ emsg' = "" =>
          \/ hdr'.head_empty = 0
          \/ LastSlot' \in Range(CprList') \ {handle'[op'.h].cpr}]_vars

(* A squash that stopped with a record left on the empty list, below the   *)
(* current-pointer record of the other handle, in a file with a live       *)
(* record.                                                                 *)
SquashEndsWitness ==
  /\ op.name = "squash" /\ emsg = ""
  /\ hdr.head_empty # 0 /\ hdr.n_avl = 1
  /\ LastSlot \in Range(CprList) \ {handle[op.h].cpr}

----------------------------------------------------------------------------
(* The records of the file that is squashed while it is read, in the order *)
(* of their insertion: two of them are equal in key 0.                     *)
KeepPayloads == << R(1, 2, 0, 0), R(2, 1, 0, 0), R(2, 2, 0, 0) >>

(* Two processes open a file of one key in either order; the first fills   *)
(* it while it has no empty record and deletes while it is nearly full,    *)
(* the second reads it by key and in sequence, and either squashes a file  *)
(* that has an empty record.                                               *)
NextKeep ==
  \/ \E h \in Both : avl_file_open(h, DataLen, 1)
  \/ /\ IsOpen(1) /\ hdr.head_empty = 0 /\ hdr.n_avl < Min({MaxRecKeep, Len(KeepPayloads)})
     /\ \A p \in Live : rec[p].b # KeepPayloads[hdr.n_avl + 1]
     /\ avl_file_insert(1, KeepPayloads[hdr.n_avl + 1], MaxRecKeep)
  \/ \E d \in IterPayloads : HasFile /\ hdr.n_avl >= MaxRecKeep - 1 /\ avl_file_delete(1, d)
  \/ avl_file_startge(3, R(1, 1, 0, 0), 0)
  \/ avl_file_next(3, Uninit, 0)
  \/ avl_file_prev(3, Uninit, 0)
  \/ avl_file_startseq(3)
  \/ avl_file_readseq(3, Uninit)
  \/ \E h \in Both : HasFile /\ hdr.head_empty # 0 /\ avl_file_squash(h)

SpecKeep == Init /\ [][NextKeep]_vars

(* The payload of the record at offset v of file F, or Uninit when v is no *)
(* record (0: the pointer is at neither end of an iteration).              *)
At(F, v) == IF v \in DOMAIN F THEN F[v].b ELSE Uninit

(* C27: squash keeps the positions of every opener.  For every record of   *)
(* the head_cpr list, each left and right field and the sequential pointer *)
(* is 0 after the squash if it was 0, and else is the offset where the     *)
(* record it pointed to now is; the next call of next, prev and readseq of *)
(* every handle returns what it would have returned without the squash.   *)
SquashKeepsPositions ==
  [][op'.name = "squash" /\ emsg' = "" =>
       \A g \in Both : IsOpen(g) =>
         LET c  == handle[g].cpr
             c1 == handle'[g].cpr
         IN /\ c \in Range(CprList) /\ c1 \in Range(CprList')
            /\ (rec'[c1].prev = 0) = (rec[c].prev = 0)
            /\ rec[c].prev # 0 =>
                 rec'[c1].prev \in Live' /\ rec'[rec'[c1].prev].b = At(rec, rec[c].prev)
            /\ \A k \in KeySet : \A s \in {"l", "r"} :
                 /\ (rec'[c1].n[k][s] = 0) = (rec[c].n[k][s] = 0)
                 /\ rec[c].n[k][s] # 0 =>
                      /\ rec'[c1].n[k][s] \in Live'
                      /\ rec'[rec'[c1].n[k][s]].b = At(rec, rec[c].n[k][s])
                 /\ LET was == Step(rec, k, c, Uninit, s)
                        is  == Step(rec', k, c1, Uninit, s)
                    IN was.ok /\ is.ok /\ is.ret = was.ret /\ is.b = was.b
            /\ LET was == ReadSeq(rec, c, Uninit)
                   is  == ReadSeq(rec', c1, Uninit)
               IN was.ok /\ is.ok /\ is.ret = was.ret /\ is.b = was.b]_vars

(* The first process squashed a file where the newest record, which was    *)
(* appended to the file, now is in a slot before an older one, and no      *)
(* empty record is left; the second process is positioned with its right   *)
(* field and its sequential pointer at that record.                        *)
SquashKeepsPositionsWitness ==
  /\ op.name = "squash" /\ op.h = 1 /\ emsg = "" /\ IsOpen(3)
  /\ hdr.head_empty = 0 /\ Len(order) >= 2 /\ order[1] < order[2]
  /\ rec[handle[3].cpr].n[0].r = order[1]
  /\ rec[handle[3].cpr].prev = order[1]

(* C28: an insert that finds head_empty non-zero puts the record in the    *)
(* slot at the head of the empty list, which loses that slot and no other, *)
(* and the length of the file does not change; an insert that finds        *)
(* head_empty 0 puts the record at the end of the file, which grows by one *)
(* slot; a delete puts the slot of the deleted record at the head of the   *)
(* empty list; so an insert right after a delete is in the slot that the   *)
(* delete freed.                                                           *)
SlotReuse ==
  [][/\ op'.name = "insert" /\ ret' = 0 =>
          /\ Live' = Live \cup {hdr'.head_seq}
          /\ hdr'.head_seq \notin Live
          /\ IF hdr.head_empty # 0
             THEN /\ hdr'.head_seq = hdr.head_empty
                  /\ EmptyList' = Tail(EmptyList)
                  /\ FileEnd(hdr', rec') = FileEnd(hdr, rec)
             ELSE /\ hdr'.head_seq = FileEnd(hdr, rec)
                  /\ EmptyList' = <<>>
                  /\ FileEnd(hdr', rec') = FileEnd(hdr, rec) + hdr.reclen
     /\ op'.name = "delete" /\ ret' = 0 =>
          \E y \in Live \ Live' :
             /\ EmptyList' = <<y>> \o EmptyList
             /\ FileEnd(hdr', rec') = FileEnd(hdr, rec)
     /\ op.name = "delete" /\ ret = 0 /\ op'.name = "insert" /\ ret' = 0 =>
          /\ hdr'.head_seq = hdr.head_empty
          /\ hdr.head_empty \in DOMAIN rec \ Live
          /\ DOMAIN rec' = DOMAIN rec]_vars

(* An insert has put the newest record in a slot before that of an older   *)
(* record while another empty slot stays on the list: it took the first of *)
(* two empty slots.                                                        *)
SlotReuseWitness ==
  /\ op.name = "insert" /\ ret = 0
  /\ Len(SeqList) >= 2 /\ SeqList[1] < SeqList[2]
  /\ hdr.head_empty # 0

----------------------------------------------------------------------------
(* A writer creates a file of one key, inserts, and closes and opens it    *)
(* again; a reader in another process opens the file while the writer has  *)
(* it open, reads it by key and in sequence, and ends in the middle of an  *)
(* iteration without closing, any number of times.                         *)
NextOpen ==
  \/ avl_file_open(1, DataLen, 1)
  \/ IsOpen(1) /\ avl_file_open(3, DataLen, 1)
  \/ avl_file_close(1)
  \/ /\ IsOpen(3)
     /\ rec[handle[3].cpr].n[0].r # 0 \/ rec[handle[3].cpr].prev # 0
     /\ Cardinality(DOMAIN rec) < MaxSlotsFull
     /\ abandon(3)
  \/ \E d \in TreePayloads : avl_file_insert(1, d, MaxRecOpen)
  \/ avl_file_startge(3, R(1, 1, 0, 0), 0)
  \/ avl_file_startseq(3)
  \/ \E h \in Both : avl_file_next(h, Uninit, 0)
  \/ \E h \in Both : avl_file_prev(h, Uninit, 0)
  \/ \E h \in Both : avl_file_readseq(h, Uninit)

SpecOpen == Init /\ [][NextOpen]_vars

(* The records of the head_cpr list that open may take over: stamped with  *)
(* the PID of another process and not locked by another process.           *)
Unused(pid) ==
  IF ~HasFile THEN {}
  ELSE {c \in Range(CprList) : rec[c].b.num # pid /\ ~LockedByOther(lock, pid, c)}

(* Whether every pointer of the current-pointer record c of file F is 0.   *)
NoPosition(F, c) ==
  /\ F[c].prev = 0
  /\ \A k \in DOMAIN F[c].n : F[c].n[k].l = 0 /\ F[c].n[k].r = 0

(* C29: open takes an unused record of the head_cpr list if there is one,  *)
(* and the lists and the length of the file stay as they are; else the     *)
(* head of the empty list, else a new slot at the end of the file, and the *)
(* slot goes to the head of the head_cpr list.  The slot is tagged 0x20    *)
(* in every key, stamped with the caller's PID, and all its pointers are   *)
(* 0; next, prev and readseq of the handle return -1, and the pointers of  *)
(* a handle that are all 0 stay 0 across every call that is not a start    *)
(* call of that handle.                                                    *)
OpenTakesSlot ==
  [][/\ op'.name = "open" /\ ret' = 0 =>
          LET h   == op'.h
              pid == ProcOf(h)
              cp  == handle'[h].cpr
              old == IF HasFile THEN CprList ELSE <<>>
              emp == IF HasFile THEN EmptyList ELSE <<>>
          IN /\ IF Unused(pid) # {}
                THEN cp \in Unused(pid) /\ CprList' = old /\ EmptyList' = emp
                     /\ DOMAIN rec' = DOMAIN rec
                ELSE IF emp # <<>>
                THEN cp = emp[1] /\ CprList' = <<cp>> \o old /\ EmptyList' = Tail(emp)
                     /\ DOMAIN rec' = DOMAIN rec
                ELSE cp = (IF HasFile THEN FileEnd(hdr, rec) ELSE HdrSize(op'.k))
                     /\ CprList' = <<cp>> \o old /\ EmptyList' = <<>>
                     /\ DOMAIN rec' = DOMAIN rec \cup {cp}
             /\ \A k \in KeySet' : rec'[cp].n[k] = Node(TagCpr, 0, 0)
             /\ rec'[cp].b.num = pid
             /\ NoPosition(rec', cp)
             /\ <<pid, cp>> \in lock'
             /\ ReadSeq(rec', cp, Uninit).ret = -1
             /\ \A k \in KeySet' : \A s \in {"l", "r"} : Step(rec', k, cp, Uninit, s).ret = -1
     /\ \A g \in Both :
          /\ IsOpen(g) /\ IsOpen(g)' /\ NoPosition(rec, handle[g].cpr)
          /\ ~(op'.h = g /\ op'.name \in {"startge", "startlt", "startseq", "find"})
          => /\ NoPosition(rec', handle'[g].cpr)
             /\ op'.h = g /\ op'.name \in {"next", "prev", "readseq"} => ret' = -1]_vars

(* The writer has opened the file again and its record is not the first    *)
(* slot of the file, where its first open put it and where its close left  *)
(* an empty record: it is the record of the reader, which ended in the     *)
(* middle of an iteration.                                                 *)
OpenTakesSlotWitness ==
  /\ op.name = "open" /\ op.h = 1 /\ ret = 0
  /\ ~IsOpen(3)
  /\ handle[1].cpr # HdrSize(1)
  /\ hdr.head_empty = HdrSize(1)
  /\ hdr.n_avl = 2

(* A record of the file without its list link. *)
Unlinked(r) == [n |-> r.n, prev |-> r.prev, b |-> r.b]

----------------------------------------------------------------------------
(* Two processes open one file with either data length and one key or two, *)
(* insert and close: the arguments of an open need not be those the file   *)
(* was made with.                                                          *)
NextArgs ==
  \/ \E h \in Both, len \in {DataLen, ShortLen}, nk \in 1 .. MaxKeys : avl_file_open(h, len, nk)
  \/ \E h \in Both : avl_file_close(h)
  \/ \E h \in Both, d \in TreePayloads : avl_file_insert(h, d, MaxRecOpen)

SpecArgs == Init /\ [][NextArgs]_vars

(* C17: an open of an existing file with a number of keys or a record      *)
(* length that is not the one in the header returns NULL (no handle) and   *)
(* sets message 22 or 23; no slot is allocated, the header and the records *)
(* are as they were, and the lock on byte 0 is released.                   *)
OpenMismatchFails ==
  [][\A h \in Both, len \in {DataLen, ShortLen}, nk \in 1 .. MaxKeys :
        /\ avl_file_open(h, len, nk)
        /\ HasFile
        /\ hdr.n_keys # nk \/ hdr.reclen # RecLenOf(nk, len)
        => /\ ret' = -1
           /\ handle'[h] = NoHandle
           /\ emsg' \in {"22 hdr.reclen != reclen", "23 hdr.n_keys != n_keys"}
           /\ hdr' = hdr /\ rec' = rec
           /\ CprList' = CprList /\ EmptyList' = EmptyList
           /\ \A e \in lock' : e[2] # 0]_vars

(* An open with two keys failed on a file of one key whose record length   *)
(* is that of the call, while the other process has the file open and the  *)
(* file holds a record.                                                    *)
OpenMismatchFailsWitness ==
  /\ op.name = "open" /\ op.k = 2 /\ ret = -1
  /\ emsg = "23 hdr.n_keys != n_keys"
  /\ HasFile /\ hdr.n_keys = 1 /\ hdr.len = DataLen /\ hdr.n_avl = 1
  /\ \E h \in Both : IsOpen(h)

----------------------------------------------------------------------------
(* A process fills a file of one key and reads it by key with key indices  *)
(* in and out of bounds, while a process of its own numbers records: byte  *)
(* 0 is locked between the steps of its avl_file_getnum.                   *)
NextKey ==
  \/ \E h \in Both : avl_file_open(h, DataLen, 1)
  \/ \E d \in TreePayloads : avl_file_insert(1, d, MaxRecOpen)
  \/ getnum_lock(3)
  \/ getnum_read(3)
  \/ getnum_write(3)
  \/ getnum_unlock(3)
  \/ \E k \in -1 .. 1 : avl_file_startlt(1, R(2, 1, 0, 0), k)
  \/ \E k \in -1 .. 1 : avl_file_startge(1, R(2, 1, 0, 0), k)
  \/ \E k \in -1 .. 1 : avl_file_next(1, Uninit, k)
  \/ \E k \in -1 .. 1 : avl_file_prev(1, Uninit, k)
  \/ \E k \in -1 .. 1 : avl_file_find(1, R(2, 1, 0, 0), k)
  \/ \E k \in -1 .. 1 : avl_file_scan(1, k, 0)

SpecKey == Init /\ [][NextKey]_vars

(* The calls that take a key index. *)
Keyed == {"startlt", "startge", "next", "prev", "find", "scan"}

(* C18: startlt, startge, next, prev, find and scan with a key index k < 0 *)
(* or k >= n_keys return -1 and set a numbered message; the header, the    *)
(* records (the caller's current-pointer record among them), the locks and *)
(* the caller's buffer are as they were (the steps that change thread are  *)
(* those of avl_file_getnum, not a call with a key index); and the call    *)
(* does not wait for byte 0: it can return in every state where the handle *)
(* is open, whoever holds the lock.                                        *)
KeyOutOfBounds ==
  /\ [][/\ op'.name \in Keyed /\ thread' = thread
        /\ op'.k < 0 \/ op'.k >= handle[op'.h].n_keys
        =>
          /\ ret' = -1
          /\ emsg' \in { "70 the key index is out of bounds",
                         "80 the key index is out of bounds",
                         "90 the key index is out of bounds",
                         "100 the key index is out of bounds",
                         "110 the key index is out of bounds" }
          /\ hdr' = hdr /\ rec' = rec /\ lock' = lock /\ handle' = handle
          /\ out' = (IF op'.name = "scan" THEN out ELSE op'.data)]_vars
  /\ [](IsOpen(1) => \A k \in {-1, 1} :
          /\ ENABLED avl_file_startlt(1, Uninit, k)
          /\ ENABLED avl_file_startge(1, Uninit, k)
          /\ ENABLED avl_file_next(1, Uninit, k)
          /\ ENABLED avl_file_prev(1, Uninit, k)
          /\ ENABLED avl_file_find(1, Uninit, k)
          /\ ENABLED avl_file_scan(1, k, 0))

(* next returned -1 for key index 1 of a file of one key that holds two    *)
(* records, with the caller positioned between them, while the other       *)
(* process held the lock on byte 0.                                        *)
KeyOutOfBoundsWitness ==
  /\ op.name = "next" /\ op.h = 1 /\ op.k = 1 /\ ret = -1
  /\ emsg = "90 the key index is out of bounds"
  /\ <<ProcOf(3), 0>> \in lock
  /\ hdr.n_avl = 2 /\ rec[handle[1].cpr].n[0].l # 0

----------------------------------------------------------------------------
(* One handle on a file of one key whose header holds the largest n_avl:   *)
(* every call that returns 0 or -1, with records found and not found, key  *)
(* indices in and out of bounds, and inserts at the limit.                 *)
NextDiag ==
  \/ avl_file_open(1, DataLen, 1)
  \/ \E d \in Payloads :
        Cardinality(DOMAIN rec) < MaxSlots /\ avl_file_insert(1, d, Int64Max + 1)
  \/ \E d \in Payloads : avl_file_delete(1, d)
  \/ \E d \in Payloads : avl_file_update(1, d)
  \/ \E k \in -1 .. 1 : avl_file_find(1, R(2, 1, 0, 0), k)
  \/ \E k \in -1 .. 1 : avl_file_startlt(1, R(2, 1, 0, 0), k)
  \/ \E k \in -1 .. 1 : avl_file_startge(1, R(2, 1, 0, 0), k)
  \/ \E k \in -1 .. 1 : avl_file_next(1, Uninit, k)
  \/ \E k \in -1 .. 1 : avl_file_prev(1, Uninit, k)
  \/ avl_file_startseq(1)
  \/ avl_file_readseq(1, Uninit)

SpecDiag == InitFull /\ [][NextDiag]_vars

(* The calls that return 0 or -1. *)
Returning ==
  {"insert", "update", "delete", "find", "startlt", "startge", "next", "prev", "readseq"}

----------------------------------------------------------------------------
(* Two threads of one process with a handle each (1 and 2), which insert   *)
(* and close, and another process (handle 3), which squashes the file and  *)
(* scans the tree of key 0.                                                *)
NextWreck ==
  \/ \E h \in Handles : WellLinked /\ avl_file_open(h, DataLen, 1)
  \/ \E h \in {1, 2} : WellLinked /\ avl_file_close(h)
  \/ \E h \in {1, 2} : WellLinked /\ avl_file_insert(h, R(1, 2, 0, 0), MaxRecMulti)
  \/ WellLinked /\ avl_file_squash(3)
  \/ avl_file_scan(3, 0, 0)

SpecWreck == Init /\ [][NextWreck]_vars

(* C20: corruption is fatal.  No call of scan that finds a record count    *)
(* other than n_avl, or a node whose balance is not hl - hr, returns: the  *)
(* process is aborted instead.                                             *)
ScanAborts ==
  ~(/\ op.name = "scan" /\ ret >= 0
    /\ \/ count # hdr.n_avl
       \/ emsg \in {"50 count != hdr.n_avl", "51 bad balance"})

----------------------------------------------------------------------------
(* The record that holds the place of y in tree k once "remove and         *)
(* replace" is done and before the re-balancing: what the root, or the     *)
(* field of y's parent that held y, holds then.                            *)
TakesPlace(k, y) ==
  LET nk == hdr.n_keys
      x  == DelRemove([ok |-> TRUE, F |-> rec, H |-> hdr, e |-> ""], k, y, rec[y],
                      DelNeighbours(rec, nk, rec[y]),
                      FindPath(rec, k, rec[y].b, "path", nk, y, hdr.root[k]))
  IN IF hdr.root[k] = y THEN x.m.H.root[k]
     ELSE LET q == CHOOSE q \in Live : rec[q].n[k].l = y \/ rec[q].n[k].r = y
          IN IF rec[q].n[k].l = y THEN x.m.F[q].n[k].l ELSE x.m.F[q].n[k].r

(* C31, as stated: when the deleted record has a right subtree in tree k,  *)
(* the record after it in the order of k takes its place; the record       *)
(* before it only when it has a left subtree and no right one.             *)
DeleteTakesSuccessor ==
  [][op'.name = "delete" /\ ret' = 0 =>
       \E y \in Live \ Live' : \A k \in KeySet :
          /\ rec[y].n[k].r > 0 => TakesPlace(k, y) = Beside(k, y, 1)
          /\ rec[y].n[k].r <= 0 /\ rec[y].n[k].l > 0
               => TakesPlace(k, y) = Beside(k, y, -1)]_vars

(* C31, amended: when the deleted record has a left subtree in tree k, the *)
(* record before it in the order of k takes its place; the record after it *)
(* takes its place only when it has a right subtree and no left one.       *)
DeleteTakesPredecessor ==
  [][op'.name = "delete" /\ ret' = 0 =>
       \E y \in Live \ Live' : \A k \in KeySet :
          /\ rec[y].n[k].l > 0 => TakesPlace(k, y) = Beside(k, y, -1)
          /\ rec[y].n[k].l <= 0 /\ rec[y].n[k].r > 0
               => TakesPlace(k, y) = Beside(k, y, 1)]_vars

(* Of three records the middle one by key 1, the root of tree 1 with a     *)
(* subtree on either side, was deleted: the first by key 1 is the root     *)
(* and the last is its right child.                                        *)
DeleteTakesPredecessorWitness ==
  /\ op.name = "delete" /\ ret = 0 /\ op.data = R(1, 2, 0, 0)
  /\ HasFile /\ hdr.n_keys = 2 /\ hdr.n_avl = 2
  /\ hdr.root[1] \in Live /\ rec[hdr.root[1]].b.object = 1
  /\ rec[hdr.root[1]].n[1].r \in Live
  /\ rec[rec[hdr.root[1]].n[1].r].b = R(2, 2, 0, 0)

----------------------------------------------------------------------------
(* v, read as an offset, is 0 or the offset of a slot of the file: not     *)
(* before the first slot, which follows the header, before the end of the  *)
(* file, and a whole number of records after the header.                   *)
InFile(v) ==
  \/ v = 0
  \/ /\ v >= HdrSize(hdr.n_keys)
     /\ v < FileEnd(hdr, rec)
     /\ (v - HdrSize(hdr.n_keys)) % hdr.reclen = 0

(* The offsets the header and the slot at p hold; a thread is negated. *)
HdrOffsets ==
  {hdr.head_seq, hdr.head_empty, hdr.head_cpr} \cup { hdr.root[k] : k \in KeySet }
SlotOffsets(p) ==
  {rec[p].next, rec[p].prev}
    \cup { Abs(rec[p].n[k].l) : k \in KeySet } \cup { Abs(rec[p].n[k].r) : k \in KeySet }

(* The most live records of the file whose reader closes.                  *)
MaxRecStale == 2

(* A writer and, in another process, a reader that starts a sequential     *)
(* read, closes and opens again, while the writer inserts, deletes and     *)
(* squashes.                                                               *)
NextStale ==
  \/ \E h \in Both : avl_file_open(h, DataLen, 1)
  \/ avl_file_close(3)
  \/ avl_file_insert(1, R(1, 2, 0, 0), MaxRecStale)
  \/ avl_file_delete(1, R(1, 2, 0, 0))
  \/ avl_file_startseq(3)
  \/ avl_file_squash(1)

SpecStale == Init /\ [][NextStale]_vars

(* C32: after every completed operation every offset held by the header,   *)
(* by a live record, by a current-pointer record or by an empty record is  *)
(* 0 or the offset of a slot of the file, which ends where the last squash *)
(* or the last append left it.                                             *)
OffsetsInFile ==
  HasFile =>
    /\ \A v \in HdrOffsets : InFile(v)
    /\ \A p \in DOMAIN rec : \A v \in SlotOffsets(p) : InFile(v)

----------------------------------------------------------------------------
(* The most live records of the file read in both directions.              *)
MaxRecStep == 3

(* A writer and, in another process, a reader of a file of two keys that   *)
(* starts at a record by either key and reads on in either direction.      *)
NextStep ==
  \/ \E h \in Both : avl_file_open(h, DataLen, MaxKeys)
  \/ \E d \in IterPayloads : avl_file_insert(1, d, MaxRecStep)
  \/ \E k \in Keys(MaxKeys) : avl_file_startge(3, R(2, 1, 0, 0), k)
  \/ \E k \in Keys(MaxKeys) : avl_file_next(3, Uninit, k)
  \/ \E k \in Keys(MaxKeys) : avl_file_prev(3, Uninit, k)

SpecStep == Init /\ [][NextStep]_vars

(* The slot at p after the call is the slot before it, but for the field   *)
(* of side s of key k.                                                     *)
SameBut(p, k, s) ==
  /\ rec'[p].b = rec[p].b /\ rec'[p].prev = rec[p].prev /\ rec'[p].next = rec[p].next
  /\ \A j \in KeySet :
       /\ rec'[p].n[j].b = rec[p].n[j].b
       /\ j # k \/ s # "l" => rec'[p].n[j].l = rec[p].n[j].l
       /\ j # k \/ s # "r" => rec'[p].n[j].r = rec[p].n[j].r

(* C33: next by key k changes the right field of key k of the caller's     *)
(* current-pointer record and prev by key k the left field of key k, and   *)
(* nothing else of the file: not the other field of key k, the fields of   *)
(* the other keys, the sequential pointer, another slot or the header; a   *)
(* call that returns -1 leaves the whole file as it was.                   *)
StepFrame ==
  [][op'.name \in {"next", "prev"} =>
       LET cp == handle[op'.h].cpr
           s  == IF op'.name = "next" THEN "r" ELSE "l"
       IN /\ hdr' = hdr
          /\ DOMAIN rec' = DOMAIN rec
          /\ \A p \in DOMAIN rec \ {cp} : rec'[p] = rec[p]
          /\ SameBut(cp, op'.k, s)
          /\ ret' = 0 => rec[cp].n[op'.k][s] \in Live
          /\ ret' = -1 => rec' = rec]_vars

(* The reader, started by key 1 and then by key 0 at a record with one on  *)
(* either side, has read on by next of key 0: the right field of key 0 has *)
(* moved past the record read, the left field is where the start left it,  *)
(* and the right field of key 1 still holds a record; the other handle's   *)
(* slot and three records are in the file.                                 *)
StepFrameWitness ==
  /\ op.name = "next" /\ op.k = 0 /\ ret = 0 /\ op.h = 3
  /\ IsOpen(1) /\ hdr.n_avl = 3
  /\ iter.kind = "ge" /\ iter.k = 0 /\ Len(iter.got) = 1
  /\ LET c == rec[handle[3].cpr] IN
       /\ c.n[0].l \in Live /\ c.n[1].r \in Live
       /\ c.n[0].l = Beside(0, iter.at, -1)
       /\ c.n[0].r = Beside(0, iter.got[1], 1)
       /\ c.n[0].r # c.n[0].l

----------------------------------------------------------------------------
(* C34: between operations the open handles have current-pointer records   *)
(* at different slots, and the slot of every open handle is on the         *)
(* head_cpr list, not on the head_empty list and not a live record,        *)
(* whatever the order of open, close, insert and squash by the processes,  *)
(* one of which may hold two handles and close one of them.                *)
CursorsApart ==
  /\ \A a, b \in Handles :
       IsOpen(a) /\ IsOpen(b) /\ a # b => handle[a].cpr # handle[b].cpr
  /\ \A a \in Handles :
       IsOpen(a) => /\ handle[a].cpr \in Range(CprList)
                    /\ handle[a].cpr \notin Range(EmptyList)
                    /\ handle[a].cpr \notin Live

----------------------------------------------------------------------------
(* C35: between operations every field of a current-pointer record on the  *)
(* head_cpr list that is not 0, the left and right fields of every key and *)
(* the sequential pointer, is the offset of a live record: not of an empty *)
(* record, of a current-pointer record or of a place past the end of the   *)
(* file, whatever inserts, deletes, squashes, opens and closes were made   *)
(* through whatever handles.                                               *)
CursorsAtLive ==
  HasFile =>
    \A c \in Range(CprList) :
      /\ c \in DOMAIN rec
      /\ rec[c].prev \in Live \cup {0}
      /\ \A k \in KeySet : /\ rec[c].n[k].l \in Live \cup {0}
                           /\ rec[c].n[k].r \in Live \cup {0}

----------------------------------------------------------------------------
(* For every key k the walk of tree k ends inside the file and no record   *)
(* of it compares greater under k than the record that follows it.         *)
OrderInvariant ==
  HasFile => \A k \in KeySet : Walkable(k) /\ Sorted(k)

(* C36: after every completed insert, delete or squash, through any of the *)
(* handles, for every key k the in-order sequence of tree k does not       *)
(* decrease under the comparison of key k, records equal in the key and    *)
(* rotated into a left subtree included.                                   *)
OrderAnyHandle ==
  op.name \in {"insert", "delete", "squash"} => OrderInvariant

(* The sequential list is linked both ways: the walk from head_seq ends    *)
(* at 0 inside the file and comes to no record twice, the first record has *)
(* prev = 0, and the next of a record has that record as its prev.         *)
SeqInvariant ==
  HasFile =>
    /\ Live \subseteq DOMAIN rec /\ NoDup(SeqList)
    /\ hdr.head_seq # 0 => rec[hdr.head_seq].prev = 0
    /\ \A r \in Live : rec[r].next # 0 =>
          rec[r].next \in DOMAIN rec /\ rec[rec[r].next].prev = r

(* C38: after every completed insert, delete or squash, through any of the *)
(* handles, the sequential list is a doubly linked list: the record at     *)
(* head_seq has prev = 0, the next of a live record points back to it, and *)
(* the walk along next from head_seq reaches 0 without a repeat.           *)
SeqAnyHandle ==
  op.name \in {"insert", "delete", "squash"} => SeqInvariant

----------------------------------------------------------------------------
(* The most live records of the file with records equal in a key.          *)
MaxRecDup == 3

(* One opener of a file of two keys that inserts records equal under key 0 *)
(* and some of them under key 1 too, deletes, squashes, and looks records  *)
(* up by find and startge.                                                 *)
NextDup ==
  \/ avl_file_open(1, DataLen, MaxKeys)
  \/ \E d \in {R(2, 1, 0, 0), R(2, 2, 0, 0)} : avl_file_insert(1, d, MaxRecDup)
  \/ \E d \in {R(2, 1, 0, 0), R(2, 2, 0, 0)} : avl_file_delete(1, d)
  \/ avl_file_squash(1)
  \/ \E k \in Keys(MaxKeys) : avl_file_find(1, R(2, 1, 0, 0), k)
  \/ \E k \in Keys(MaxKeys) : avl_file_startge(1, R(2, 1, 0, 0), k)

SpecDup == Init /\ [][NextDup]_vars

(* p was inserted before q: order holds the live records, the last         *)
(* inserted first.                                                         *)
Before(p, q) == Idx(order, p) > Idx(order, q)

(* The live records equal to b under key k, and the first inserted of      *)
(* them, or 0.                                                             *)
EqualUnder(k, b) == { p \in Live : cmp_test(k, rec[p].b, b) = 0 }
Earliest(k, b) ==
  LET S == EqualUnder(k, b) IN
  IF S = {} THEN 0 ELSE CHOOSE p \in S : \A q \in S \ {p} : Before(p, q)

(* C37: for every key k, the live records equal under k stand in the       *)
(* in-order sequence of tree k in the order of their insertion, after any  *)
(* inserts, deletes and squashes; and find and startge by key k with a     *)
(* buffer that some live record equals under k return 0 with the first     *)
(* inserted of those records, and leave the position of key k at the       *)
(* records before and after it.                                            *)
DuplicatesInOrder ==
  /\ [](HasFile =>
         \A k \in KeySet :
           /\ Walkable(k) /\ Range(order) = Live
           /\ LET io == InOrder(k) IN
              \A i, j \in 1 .. Len(io) :
                 i < j /\ cmp_test(k, rec[io[i]].b, rec[io[j]].b) = 0
                   => Before(io[i], io[j]))
  /\ [][op'.name \in {"find", "startge"} /\ EqualUnder(op'.k, op'.data) # {} =>
         LET k  == op'.k
             e  == Earliest(k, op'.data)
             cp == handle[op'.h].cpr
         IN /\ ret' = 0 /\ out' = rec[e].b
            /\ rec'[cp].n[k].l = Beside(k, e, -1)
            /\ rec'[cp].n[k].r = Beside(k, e, 1)]_vars

(* Of the records in the file two are equal under key 0 and differ in key  *)
(* 1, after a delete of an earlier record; the one inserted last is at the *)
(* lower offset and is the less by key 1.  find by key 0 has returned the  *)
(* one inserted first, and the position is before the other.               *)
DuplicatesInOrderWitness ==
  /\ op.name = "find" /\ op.k = 0 /\ ret = 0
  /\ HasFile /\ hdr.n_avl = 2 /\ Len(order) = 2 /\ order[1] < order[2]
  /\ EqualUnder(0, op.data) = Live
  /\ rec[order[1]].b = R(2, 1, 0, 0) /\ rec[order[2]].b = R(2, 2, 0, 0)
  /\ out = R(2, 2, 0, 0)
  /\ rec[handle[1].cpr].n[0].l = 0
  /\ rec[handle[1].cpr].n[0].r = order[1]

----------------------------------------------------------------------------
(* The first record in the order of key k that is not less than b, or 0.   *)
FirstGe(k, b) ==
  LET io == InOrder(k)
      ge == { i \in 1 .. Len(io) : cmp_test(k, rec[io[i]].b, b) >= 0 }
  IN IF ge = {} THEN 0 ELSE io[Min(ge)]

(* C40: find(buf, k) leaves the position of key k of the caller where      *)
(* startge(buf, k) leaves it, whatever it returns: at the records before   *)
(* and after the first record not less than buf, or at 0 and 0 when there  *)
(* is no such record; it returns 0 with that record when the record equals *)
(* buf under k, and otherwise -1 with the caller's buffer as it was.       *)
FindPositions ==
  [][op'.name = "find" /\ op'.k \in KeySet =>
       LET k  == op'.k
           cp == handle[op'.h].cpr
           a  == FirstGe(k, op'.data)
           eq == a # 0 /\ cmp_test(k, rec[a].b, op'.data) = 0
       IN /\ rec' = Start(hdr, rec, k, cp, op'.data, TRUE).F
          /\ rec'[cp].n[k].l = (IF a = 0 THEN 0 ELSE Beside(k, a, -1))
          /\ rec'[cp].n[k].r = (IF a = 0 THEN 0 ELSE Beside(k, a, 1))
          /\ \A p \in DOMAIN rec \ {cp} : rec'[p] = rec[p]
          /\ hdr' = hdr
          /\ eq => ret' = 0 /\ out' = rec[a].b
          /\ ~eq => ret' = -1 /\ out' = op'.data]_vars

(* find by key 1 has returned -1 for a buffer that no record equals under  *)
(* key 1, with a record less than it and two greater in the file: the      *)
(* position of key 1 is at the record before the first greater one and at  *)
(* the one after it.                                                       *)
FindPositionsWitness ==
  /\ op.name = "find" /\ op.k = 1 /\ ret = -1 /\ out = op.data
  /\ HasFile /\ hdr.n_keys = 2 /\ hdr.n_avl = 3
  /\ EqualUnder(1, op.data) = {}
  /\ LET c == rec[handle[1].cpr].n[1] IN
       /\ c.l \in Live /\ c.r \in Live
       /\ cmp_test(1, rec[c.l].b, op.data) < 0
       /\ cmp_test(1, rec[c.r].b, op.data) > 0
       /\ Beside(1, c.l, 2) = c.r

----------------------------------------------------------------------------
(* avl_file_open, one blocking call at a time, for a file of one key.      *)

(* The call is made. *)
open_call(h) ==
  /\ ~IsOpen(h)
  /\ \A g \in Handles : ProcOf(g) = ProcOf(h) => thread[g] = Idle
  /\ thread' = [thread EXCEPT ![h] = [at |-> "called", hdr |-> NoHdr]]
  /\ UNCHANGED <<hdr, rec, handle, lock, op, ret, out, emsg, order, iter, nums, user, count>>

(* lockf (fd, F_LOCK, 1) of byte 0 has returned: the header is read (and   *)
(* written, if the file is new), the slot is chosen and written.  The      *)
(* header with the changed lists is in the automatic hdr of the call.      *)
open_gate(h) ==
  LET pid == ProcOf(h)
      H0  == IF hdr = NoHdr THEN NewHdr(1, DataLen) ELSE hdr
      s   == OpenSearch(rec, lock, pid, H0.head_cpr, UninitRec(1), Fuel(rec))
      new == s.cp = 0
      e   == H0.head_empty
      cp  == IF ~new THEN s.cp ELSE IF e = 0 THEN FileEnd(H0, rec) ELSE e
      c0  == IF new /\ e # 0 THEN rec[e] ELSE s.cpr
      H1  == IF new /\ e # 0 THEN [H0 EXCEPT !.head_empty = c0.next] ELSE H0
      c1  == IF new THEN [c0 EXCEPT !.next = H1.head_cpr] ELSE c0
      H2  == IF new THEN [H1 EXCEPT !.head_cpr = cp] ELSE H1
  IN
  /\ thread[h].at = "called"
  /\ GateFree(h)
  /\ s.ok
  /\ new /\ e # 0 => e \in DOMAIN rec
  /\ rec' = Wr(rec, cp, CprInit(c1, 1, pid))
  /\ hdr' = H0
  /\ lock' = lock \cup {<<pid, 0>>}
  /\ handle' = [handle EXCEPT ![h] = [n_keys |-> 1, cpr |-> cp]]
  /\ thread' = [thread EXCEPT ![h] = [at |-> "slot", hdr |-> H2]]
  /\ UNCHANGED <<op, ret, out, emsg, order, iter, nums, user, count>>

(* lockf (fd, F_LOCK, reclen) of the slot has returned: the header is      *)
(* written, byte 0 is unlocked and the handle is returned.                 *)
open_slot(h) ==
  LET pid == ProcOf(h) IN
  /\ thread[h].at = "slot"
  /\ ~LockedByOther(lock, pid, handle[h].cpr)
  /\ hdr' = thread[h].hdr
  /\ lock' = Unlock(lock, pid, 0) \cup {<<pid, handle[h].cpr>>}
  /\ thread' = [thread EXCEPT ![h] = Idle]
  /\ op' = Call("open", h, 1, Uninit)
  /\ ret' = 0
  /\ out' = Uninit
  /\ emsg' = ""
  /\ iter' = NoIter
  /\ UNCHANGED <<rec, handle, order, nums, user, count>>

(* The process of handle h waits for byte 0, which a call of another       *)
(* process holds while it waits for a slot that the process of h has       *)
(* locked: a kernel that finds the cycle fails the lockf of h with         *)
(* EDEADLK, and the code, which does not look at what lockf returns, goes  *)
(* on without the lock.                                                    *)
Cycle(h) ==
  \E g \in Handles :
     /\ ProcOf(g) # ProcOf(h) /\ thread[g].at = "slot"
     /\ <<ProcOf(h), handle[g].cpr>> \in lock

(* Two handles of one process and one of another, which open and close.   *)
NextLive ==
  \/ \E h \in Handles : WellLinked /\ open_call(h)
  \/ \E h \in Handles : open_gate(h)
  \/ \E h \in Handles : open_slot(h)
  \/ \E h \in Handles : WellLinked /\ avl_file_close(h)
  \/ \E h \in Handles : Close(h, Cycle(h))

(* The scheduling is fair: a call that waits for a lock gets it if the     *)
(* lock is free again and again, and waits for nothing else.               *)
Fair ==
  \A h \in Handles : SF_vars(open_gate(h)) /\ WF_vars(open_slot(h))

SpecLive == Init /\ [][NextLive]_vars /\ Fair

(* C39: no call returns with byte 0 locked, and with fair scheduling every *)
(* call that is started returns.                                           *)
CallsReturn ==
  /\ []((\A h \in Handles : thread[h] = Idle) => \A e \in lock : e[2] # 0)
  /\ \A h \in Handles : (thread[h].at # "idle") ~> (thread[h].at = "idle")

====
